---- MODULE Spec2Model ----
(***************************************************************************)
(* Model of the emmett-hono adapter: the application factory               *)
(* (getApplication), the global error hook (problemDetailsHandler), the    *)
(* default error mapper, and the response helpers (sendProblem,            *)
(* sendCreated).                                                           *)
(*                                                                         *)
(* Text values that the code only copies or compares are TLA+ strings.     *)
(* Text values the code inspects character by character (the request URL,  *)
(* a created id, a Location value, an ETag) are sequences of one-character *)
(* strings.                                                                *)
(* An options object is a function whose DOMAIN is the set of members it   *)
(* carries, so that a missing member and an empty one stay different.      *)
(***************************************************************************)
EXTENDS Integers, Sequences, FiniteSets, TLC

(***************************************************************************)
(* Bounds                                                                  *)
(***************************************************************************)
\* number of requests one run of the application serves
MaxRequests == 2

(***************************************************************************)
(* JavaScript helpers                                                      *)
(***************************************************************************)
\* `x` used as a condition, for a string: the empty string is falsy
TruthyStr(s) == s # ""

\* `x` used as a condition, for a character sequence
TruthySeq(s) == Len(s) > 0

\* `x` used as a condition, for a number: 0 is falsy
TruthyNum(n) == n # 0

\* options.member when the member is present and truthy (strings)
HasTruthyStr(o, f) == f \in DOMAIN o /\ TruthyStr(o[f])

\* a truthiness test that only looks whether the member is present
HasTruthySeq_Present(o, f) == f \in DOMAIN o

\* options.member when the member is present and truthy (character sequences)
HasTruthySeq(o, f) == f \in DOMAIN o /\ TruthySeq(o[f])

\* the empty object {} (and an omitted options argument)
NoOptions == [x \in {} |-> ""]

\* headers.set(name, value) on a header map
SetHeader(h, n, v) == [x \in (DOMAIN h) \cup {n} |-> IF x = n THEN v ELSE h[x]]

(***************************************************************************)
(* Thrown values                                                           *)
(***************************************************************************)
\* classes whose instances satisfy `instanceof Error`
ErrorClasses ==
  {"Error", "CustomError", "ValidationError", "IllegalStateError",
   "NotFoundError", "ConcurrencyError", "HTTPException"}

Messages == {"", "boom"}

\* Error objects a route handler can throw; an HTTPException carries a status
ErrorValues ==
  [class : ErrorClasses \ {"HTTPException"}, message : Messages, status : {0}]
    \cup [class : {"HTTPException"}, message : Messages, status : {400}]

\* values that are not Error objects: a thrown string; `str` is String(value)
NonErrorValues ==
  [class : {"NonError"}, message : {""}, str : {"", "oops"}]

ThrownValues == ErrorValues \cup NonErrorValues

\* err instanceof Error
InstanceOfError(err) == err.class \in ErrorClasses

\* String(err) for a value that is not an Error
StringOf(err) == err.str

(***************************************************************************)
(* types.ts                                                                *)
(***************************************************************************)
\* a title table that has lost its 409 entry
defaultTitleForStatus_No409(status) ==
  IF status = 400 THEN "Bad Request"
  ELSE IF status = 403 THEN "Forbidden"
  ELSE IF status = 404 THEN "Not Found"
  ELSE IF status = 412 THEN "Precondition Failed"
  ELSE IF status = 500 THEN "Internal Server Error"
  ELSE "Error"

defaultTitleForStatus(status) ==
  IF status = 400 THEN "Bad Request"
  ELSE IF status = 403 THEN "Forbidden"
  ELSE IF status = 404 THEN "Not Found"
  ELSE IF status = 409 THEN "Conflict"
  ELSE IF status = 412 THEN "Precondition Failed"
  ELSE IF status = 500 THEN "Internal Server Error"
  ELSE "Error"

\* new ProblemDocument(params): params carries status and detail, and
\* optionally title, type and instance
ProblemDocument(params) ==
  LET base ==
        [status |-> params["status"],
         detail |-> params["detail"],
         type   |-> IF "type" \in DOMAIN params THEN params["type"]
                    ELSE "about:blank",
         title  |-> IF "title" \in DOMAIN params THEN params["title"]
                    ELSE defaultTitleForStatus(params["status"])]
  IN IF HasTruthyStr(params, "instance")
       THEN [status |-> base.status, detail |-> base.detail,
             type |-> base.type, title |-> base.title,
             instance |-> params["instance"]]
       ELSE base

defaultErrorMapper(error) ==
  LET message == IF InstanceOfError(error) THEN error.message
                 ELSE StringOf(error)
  IN ProblemDocument(
       [status |-> 500,
        detail |-> IF TruthyStr(message) THEN message
                   ELSE "Internal Server Error",
        title  |-> "Internal Server Error",
        type   |-> "about:blank"])

(***************************************************************************)
(* Fetch API and host framework primitives used by responses.ts            *)
(***************************************************************************)
NullBody == [kind |-> "null"]

\* the body JSON.stringify(value) produces, kept as the value it encodes
JsonBody(v) == [kind |-> "json", value |-> v]

TextBody(t) == [kind |-> "text", value |-> t]

NoHeaders == [x \in {} |-> ""]

\* statuses for which the Fetch standard forbids a body
NullBodyStatuses == {101, 103, 204, 205, 304}

\* the two outcomes of a call: a returned response or a raised exception
Returned(r) == [tag |-> "response", res |-> r]

Raised(e) == [tag |-> "throw", error |-> e]

\* new Response(body, {status, headers}): the constructor rejects a status
\* outside 200..599 and a body on a null-body status
NewResponse(body, status, headers) ==
  IF status < 200 \/ status > 599 THEN Raised("RangeError")
  ELSE IF body # NullBody /\ status \in NullBodyStatuses
    THEN Raised("TypeError")
  ELSE Returned([status |-> status, headers |-> headers, body |-> body])

\* c.json(object, status, headers): JSON body, Content-Type application/json
\* unless the given headers name another one
CJson(object, status, headers) ==
  NewResponse(JsonBody(object), status,
              IF "Content-Type" \in DOMAIN headers THEN headers
              ELSE SetHeader(headers, "Content-Type", "application/json"))

\* c.body(null, status)
CBodyNull(status) == NewResponse(NullBody, status, NoHeaders)

\* c.text(text, status)
CText(text, status) ==
  NewResponse(TextBody(text), status,
              SetHeader(NoHeaders, "Content-Type", "text/plain"))

(***************************************************************************)
(* responses.ts                                                            *)
(***************************************************************************)
sendProblem(c, statusCode, options) ==
  LET problemDoc ==
        IF "problem" \in DOMAIN options THEN options["problem"]
        ELSE ProblemDocument(
               [status |-> statusCode,
                detail |-> IF HasTruthyStr(options, "problemDetails")
                           THEN options["problemDetails"] ELSE ""])
      h0 == SetHeader(NoHeaders, "Content-Type", "application/problem+json")
      h1 == IF HasTruthySeq(options, "location")
              THEN SetHeader(h0, "Location", options["location"]) ELSE h0
      headers == IF HasTruthySeq(options, "eTag")
                   THEN SetHeader(h1, "ETag", options["eTag"]) ELSE h1
  IN IF statusCode # 204 /\ statusCode # 304
       THEN CJson(problemDoc, statusCode, headers)
       ELSE NewResponse(JsonBody(problemDoc), statusCode, headers)

\* a notFound helper that sends the wrong status
sendNotFound_As400(c, options) == sendProblem(c, 400, options)

sendNotFound(c, options) == sendProblem(c, 404, options)

\* a separator test that never sees the trailing "/"
EndsWithSlash_Never(url) == FALSE

\* baseUrl.endsWith('/')
EndsWithSlash(url) == Len(url) > 0 /\ url[Len(url)] = "/"

sendCreated(c, options) ==
  LET hasId == "createdId" \in DOMAIN options
      created == IF hasId THEN CJson([id |-> options["createdId"]], 201, NoHeaders)
                 ELSE CBodyNull(201)
      response == created.res
      baseUrl == c.url
      separator == IF EndsWithSlash(baseUrl) THEN <<>> ELSE <<"/">>
      h1 == IF HasTruthySeq(options, "url")
              THEN SetHeader(response.headers, "Location", options["url"])
            ELSE IF HasTruthySeq(options, "createdId")
              THEN SetHeader(response.headers, "Location",
                             baseUrl \o separator \o options["createdId"])
            ELSE response.headers
      h2 == IF HasTruthySeq(options, "eTag")
              THEN SetHeader(h1, "ETag", options["eTag"]) ELSE h1
  IN Returned([status |-> response.status, headers |-> h2,
               body |-> response.body])

(***************************************************************************)
(* middlewares/problemDetails.ts                                           *)
(***************************************************************************)
\* the mapError functions a caller supplies to getApplication; "none" stands
\* for an omitted mapError
MapErrorKinds == {"none", "teapot", "custom", "undefined", "raises", "zero"}

\* mapError(err, c): a document, undefined, or an exception of its own
CallMapError(kind, err) ==
  CASE kind = "teapot" ->
         [tag |-> "doc",
          doc |-> ProblemDocument([status |-> 418, detail |-> "kettle"])]
    [] kind = "custom" ->
         IF err.class = "CustomError"
           THEN [tag |-> "doc",
                 doc |-> ProblemDocument(
                           [status |-> 418, title |-> "Custom Error Mapped",
                            detail |-> err.message,
                            instance |-> "/error/custom"])]
           ELSE [tag |-> "undefined"]
    [] kind = "zero" ->
         [tag |-> "doc",
          doc |-> ProblemDocument([status |-> 0, detail |-> "zero"])]
    [] kind = "carts" ->
         IF err.class = "ExpectedVersionConflictError"
           THEN [tag |-> "doc",
                 doc |-> ProblemDocument(
                           [status |-> 412, title |-> "Precondition Failed",
                            detail |-> err.message])]
           ELSE [tag |-> "undefined"]
    [] kind = "raises" -> [tag |-> "raise"]
    [] OTHER -> [tag |-> "undefined"]

\* an error hook that falls back to the default mapping even when mapError
\* returned a document
problemDetailsHandler_DefaultFirst(kind, err, c) ==
  LET first == IF kind = "none"
                 THEN [tag |-> "doc", doc |-> defaultErrorMapper(err)]
                 ELSE CallMapError(kind, err)
      problemDoc == defaultErrorMapper(err)
      status == IF TruthyNum(problemDoc.status) THEN problemDoc.status ELSE 500
  IN IF first.tag = "raise"
       THEN [result |-> Raised("MapErrorRaised"),
             mapErrorCalled |-> TRUE, defaultCalled |-> FALSE,
             logged |-> <<>>]
       ELSE [result |-> sendProblem(c, status, [problem |-> problemDoc]),
             mapErrorCalled |-> kind # "none",
             defaultCalled |-> TRUE,
             logged |-> IF status >= 500
                          THEN <<[level |-> "error", status |-> status]>>
                          ELSE <<>>]

\* the ErrorHandler problemDetailsHandler(mapError) returns, applied to
\* (err, c).  `first` is mapError(err, c), where an omitted mapError defaults
\* to defaultErrorMapper; the result also tells which mappers ran and what
\* was written to console.error
problemDetailsHandler(kind, err, c) ==
  LET first == IF kind = "none"
                 THEN [tag |-> "doc", doc |-> defaultErrorMapper(err)]
                 ELSE CallMapError(kind, err)
      problemDoc == IF first.tag = "doc" THEN first.doc
                    ELSE defaultErrorMapper(err)
      status == IF TruthyNum(problemDoc.status) THEN problemDoc.status ELSE 500
  IN IF first.tag = "raise"
       THEN [result |-> Raised("MapErrorRaised"),
             mapErrorCalled |-> TRUE, defaultCalled |-> FALSE,
             logged |-> <<>>]
       ELSE [result |-> sendProblem(c, status, [problem |-> problemDoc]),
             mapErrorCalled |-> kind # "none",
             defaultCalled |-> kind = "none" \/ first.tag = "undefined",
             logged |-> IF status >= 500
                          THEN <<[level |-> "error", status |-> status]>>
                          ELSE <<>>]

(***************************************************************************)
(* ETag middlewares                                                        *)
(*                                                                         *)
(* An ETag value is inspected by its prefix, so it is a sequence of        *)
(* one-character strings with the digest of the body kept as one element.  *)
(***************************************************************************)
Quote == "\""

\* s.startsWith(p)
StartsWith(s, p) == Len(s) >= Len(p) /\ SubSeq(s, 1, Len(p)) = p

\* await response.clone().text(): the text of the body, empty for no body
BodyText(body) == IF body.kind = "null" THEN "" ELSE body.value

\* createHash('md5').update(content).digest('hex'), taken as collision-free
\* on the bodies of the model
Digest(content) == <<"#", content>>

generateETag(content, weak) ==
  (IF weak THEN <<"W", "/">> ELSE <<>>)
    \o <<Quote>> \o Digest(content) \o <<Quote>>

defaultETagOptions == [weak |-> TRUE]

\* a filter that lets every method and every status pass
ETagEligible_Any(method, res) == TRUE

\* the request and response pass the filter of the ETag middleware: GET or
\* HEAD, a 2xx status, not 204
ETagEligible(method, res) ==
  /\ method \in {"GET", "HEAD"}
  /\ res.status >= 200
  /\ res.status < 300
  /\ res.status # 204

\* a test that never sees the ETag the route handler set
AlreadyTagged_Never(res) == FALSE

\* c.res.headers.has('ETag')
AlreadyTagged(res) == "ETag" \in DOMAIN res.headers

\* a response rebuilt from the body alone
Rebuilt_Bare(res) == [status |-> 200, headers |-> NoHeaders, body |-> res.body]

\* new Response(c.res.body, {status: c.res.status, statusText,
\* headers: new Headers(c.res.headers)})
Rebuilt(res) ==
  [status |-> res.status, headers |-> res.headers, body |-> res.body]

\* the middleware applyETag(app, options) installs, as the function from the
\* response the next stage left on the context to the response it leaves
applyETag(options, method, res) ==
  LET etagOptions == options @@ defaultETagOptions
      body == BodyText(res.body)
  IN IF ETagEligible(method, res) /\ ~AlreadyTagged(res) /\ body # ""
       THEN [Rebuilt(res) EXCEPT !.headers =
               SetHeader(@, "ETag", generateETag(body, etagOptions["weak"]))]
       ELSE res

\* a host middleware that never answers 304
etag_Unconditional(options, ifNoneMatch, method, res) ==
  LET weak == IF "weak" \in DOMAIN options THEN options["weak"] ELSE FALSE
      body == BodyText(res.body)
      tag == IF AlreadyTagged(res) THEN res.headers["ETag"]
             ELSE IF body # "" THEN generateETag(body, weak)
             ELSE <<>>
  IN IF ~ETagEligible(method, res) \/ tag = <<>> THEN res
     ELSE [res EXCEPT !.headers = SetHeader(res.headers, "ETag", tag)]

\* the host framework's etag(etagOptions) middleware the current
\* getApplication installs, on the responses the repository exercises it
\* with: strong unless weak is set, an existing ETag kept, and a matching
\* If-None-Match answered with 304 and the same ETag
etag(options, ifNoneMatch, method, res) ==
  LET weak == IF "weak" \in DOMAIN options THEN options["weak"] ELSE FALSE
      body == BodyText(res.body)
      tag == IF AlreadyTagged(res) THEN res.headers["ETag"]
             ELSE IF body # "" THEN generateETag(body, weak)
             ELSE <<>>
  IN IF ~ETagEligible(method, res) \/ tag = <<>> THEN res
     ELSE IF ifNoneMatch = tag
       THEN [status |-> 304, body |-> NullBody,
             headers |-> SetHeader(NoHeaders, "ETag", tag)]
     ELSE [res EXCEPT !.headers = SetHeader(res.headers, "ETag", tag)]

(***************************************************************************)
(* Application state                                                       *)
(***************************************************************************)
VARIABLES
  opts,          \* the ApplicationOptions getApplication was called with
  pc,            \* the stage the request in flight is at; idle and done
  req,           \* the request in flight
  ctxHeaders,    \* headers middleware has put on the context so far
  thrown,        \* the value the route handler threw
  outcome,       \* what the client gets: a response or an exception
  answeredBy,    \* the stage that produced the outcome
  mapErrorCalls, \* calls of the caller's mapError for this request
  defaultMapperCalls, \* calls of defaultErrorMapper as the fallback or default
  consoleError,  \* payloads written to console.error for this request
  served,        \* requests completed so far
  trace,         \* the stages that ran for the request in flight, in order
  logs,          \* lines the logger middleware wrote for this request
  prev,          \* the last ETag a response carried, and the path it was for
  call,          \* the last direct call of a helper or middleware, its result
  streams,       \* event store of the shopping-cart API: the events of each cart
  todos,         \* the todos of a todo API, by id
  versions,      \* the version of each todo
  events,        \* the event log of the todo API
  issued,        \* the ETag the client got when it created each todo
  reply,         \* the last request to an API of the tests and its answer
  apiCalls,      \* requests the API of the tests has answered so far
  storeCalls,    \* calls of the createStore factory so far
  middleware,    \* the event-store middleware, once it is built
  requests       \* the requests passing through the event-store middleware

vars == <<opts, pc, req, ctxHeaders, thrown, outcome, answeredBy,
          mapErrorCalls, defaultMapperCalls, consoleError, served,
          trace, logs, prev, call,
          streams, todos, versions, events, issued, reply, apiCalls,
          storeCalls, middleware, requests>>

storeVars == <<storeCalls, middleware, requests>>

apiVars == <<streams, todos, versions, events, issued, reply, apiCalls,
             storeVars>>

pipelineVars == <<opts, pc, req, ctxHeaders, thrown, outcome, answeredBy,
                  mapErrorCalls, defaultMapperCalls, consoleError, served,
                  trace, logs, prev>>

NoRequest == [method |-> "", path |-> "", ifNoneMatch |-> <<>>]

NoThrown == [class |-> "none"]

NoOutcome == [tag |-> "none"]

NoCall == [fn |-> "none"]

NoPrev == [path |-> "", etag |-> <<>>]

NoReply == [op |-> "none"]

NoMiddleware == [tag |-> "none"]

\* the carts of the shopping-cart tests; a cart has the id of its client
CartIds == {<<"a">>, <<"b">>}

\* a fresh getInMemoryEventStore(), and the emptied stores of the todo tests
ApiIdle ==
  /\ streams = [id \in CartIds |-> <<>>]
  /\ todos = <<>>
  /\ versions = <<>>
  /\ events = <<>>
  /\ issued = <<>>
  /\ storeCalls = 0
  /\ middleware = NoMiddleware
  /\ requests = <<>>
  /\ reply = NoReply
  /\ apiCalls = 0

\* the routes the api registrars of the tests put on the app
Apis == {"ping", "boom"}

Methods == {"GET", "POST", "OPTIONS"}

Paths == {"/ping", "/boom", "/__missing__"}

\* an If-None-Match value that names no current representation
StaleETag == <<Quote, "s", Quote>>

\* the route of the registered apis the request matches, if any
MatchRoute(apis, r) ==
  IF r.method = "GET" /\ r.path = "/ping" /\ "ping" \in apis THEN "ping"
  ELSE IF r.method = "GET" /\ r.path = "/boom" /\ "boom" \in apis THEN "boom"
  ELSE "none"

\* c.res = response: headers already put on the context are kept
Finalize(result, headers) ==
  IF result.tag # "response" THEN result
  ELSE Returned([status |-> result.res.status,
                 body |-> result.res.body,
                 headers |-> [x \in (DOMAIN result.res.headers) \cup (DOMAIN headers) |->
                                IF x \in DOMAIN headers THEN headers[x]
                                ELSE result.res.headers[x]]])

\* a factory that installs the error hook whatever the options say
InstallsErrorHook_Always(o) == TRUE

\* getApplication: does it install problemDetailsHandler with app.onError?
InstallsErrorHook(o) == ~o.disableProblemDetails

\* a factory that installs the ETag middleware before the CORS middleware
StageOrder_ETagFirst == <<"logger", "etag", "cors", "route">>

\* the order in which getApplication installs the middlewares; the routes
\* come last
StageOrder == <<"logger", "cors", "etag", "route">>

\* a factory that installs every middleware whatever the flags say
Installs_Always(o, s) == TRUE

\* getApplication: does it install stage s?  An omitted flag is false
Installs(o, s) ==
  CASE s = "logger" -> o.enableLogger
    [] s = "cors" -> o.enableCors
    [] s = "etag" -> o.enableETag
    [] OTHER -> TRUE

\* the handlers a request passes, in order
Chain(o) == SelectSeq(StageOrder, LAMBDA s : Installs(o, s))

IndexOf(seq, s) == CHOOSE i \in 1..Len(seq) : seq[i] = s

FirstStage(o) == Chain(o)[1]

\* next(): the stage after s
NextStage(o, s) == Chain(o)[IndexOf(Chain(o), s) + 1]

\* post-processing a stage does once its next() has resolved; the CORS
\* middleware has none
HasPost(s) == s \in {"logger", "etag"}

PostOf(s) == IF s = "logger" THEN "loggerPost" ELSE "etagPost"

\* stage number i of the chain has an outcome: the nearest stage before it
\* that has post-processing resumes, or the request is done
UnwindFrom(o, i) ==
  LET outer == {j \in 1..(i - 1) : HasPost(Chain(o)[j])}
  IN IF outer = {} THEN "done"
     ELSE PostOf(Chain(o)[CHOOSE j \in outer : \A k \in outer : k <= j])

Unwind(o, s) == UnwindFrom(o, IndexOf(Chain(o), s))

ETagOptionValues == {NoOptions, [weak |-> TRUE], [weak |-> FALSE]}

ApplicationOptions ==
  [apis : SUBSET Apis, enableCors : BOOLEAN, mapError : MapErrorKinds,
   disableProblemDetails : BOOLEAN, enableETag : BOOLEAN,
   etagOptions : ETagOptionValues, enableLogger : BOOLEAN]

IdleRequest ==
  /\ pc = "idle"
  /\ req = NoRequest
  /\ ctxHeaders = NoHeaders
  /\ thrown = NoThrown
  /\ outcome = NoOutcome
  /\ answeredBy = "none"
  /\ mapErrorCalls = 0
  /\ defaultMapperCalls = 0
  /\ consoleError = <<>>
  /\ trace = <<>>
  /\ logs = <<>>

Init ==
  /\ opts \in ApplicationOptions
  /\ IdleRequest
  /\ served = 0
  /\ prev = NoPrev
  /\ call = NoCall
  /\ ApiIdle

\* a client sends a request; the first installed handler gets it.  The
\* client sends no If-None-Match, a stale one, or the ETag it last received
Receive(method, path, inm) ==
  /\ pc = "idle"
  /\ served < MaxRequests
  /\ req' = [method |-> method, path |-> path, ifNoneMatch |-> inm]
  /\ pc' = FirstStage(opts)
  /\ UNCHANGED <<opts, ctxHeaders, thrown, outcome, answeredBy, mapErrorCalls,
                 defaultMapperCalls, consoleError, served, trace, logs, prev,
                 call, apiVars>>

\* the logger middleware before next(): the incoming line
Logger ==
  /\ pc = "logger"
  /\ logs' = Append(logs, [dir |-> "<--", method |-> req.method,
                           path |-> req.path, status |-> 0])
  /\ trace' = Append(trace, "logger")
  /\ pc' = NextStage(opts, "logger")
  /\ UNCHANGED <<opts, req, ctxHeaders, thrown, outcome, answeredBy,
                 mapErrorCalls, defaultMapperCalls, consoleError, served,
                 prev, call, apiVars>>

\* the CORS middleware: answers an OPTIONS pre-flight itself with 204,
\* otherwise sets Access-Control-Allow-Origin and calls the next stage
Cors ==
  /\ pc = "cors"
  /\ trace' = Append(trace, "cors")
  /\ LET allow == SetHeader(NoHeaders, "Access-Control-Allow-Origin", "*")
     IN IF req.method = "OPTIONS"
          THEN /\ outcome' = NewResponse(NullBody, 204,
                               SetHeader(allow, "Access-Control-Allow-Methods",
                                         "GET,HEAD,PUT,POST,DELETE,PATCH"))
               /\ answeredBy' = "cors"
               /\ pc' = Unwind(opts, "cors")
               /\ UNCHANGED ctxHeaders
          ELSE /\ ctxHeaders' = allow
               /\ pc' = NextStage(opts, "cors")
               /\ UNCHANGED <<outcome, answeredBy>>
  /\ UNCHANGED <<opts, req, thrown, mapErrorCalls, defaultMapperCalls,
                 consoleError, served, logs, prev, call, apiVars>>

\* the ETag middleware before next(): it has read If-None-Match
Etag ==
  /\ pc = "etag"
  /\ trace' = Append(trace, "etag")
  /\ pc' = NextStage(opts, "etag")
  /\ UNCHANGED <<opts, req, ctxHeaders, thrown, outcome, answeredBy,
                 mapErrorCalls, defaultMapperCalls, consoleError, served,
                 logs, prev, call, apiVars>>

\* the matched route handler returns a response: GET /ping answers pong
RouteReturns ==
  /\ pc = "route"
  /\ MatchRoute(opts.apis, req) = "ping"
  /\ outcome' = Finalize(CText("pong", 200), ctxHeaders)
  /\ answeredBy' = "route"
  /\ trace' = Append(trace, "route")
  /\ pc' = Unwind(opts, "route")
  /\ UNCHANGED <<opts, req, ctxHeaders, thrown, mapErrorCalls,
                 defaultMapperCalls, consoleError, served, logs, prev, call, apiVars>>

\* the matched route handler throws: GET /boom throws the Error err
RouteThrows(err) ==
  /\ pc = "route"
  /\ MatchRoute(opts.apis, req) = "boom"
  /\ thrown' = err
  /\ trace' = Append(trace, "route")
  /\ pc' = "error"
  /\ UNCHANGED <<opts, req, ctxHeaders, outcome, answeredBy, mapErrorCalls,
                 defaultMapperCalls, consoleError, served, logs, prev, call, apiVars>>

\* no route matches: the notFound handler getApplication installs
NotFound ==
  /\ pc = "route"
  /\ MatchRoute(opts.apis, req) = "none"
  /\ outcome' = Finalize(
                  sendNotFound(req,
                    [problemDetails |-> "The requested resource was not found"]),
                  ctxHeaders)
  /\ answeredBy' = "notFound"
  /\ trace' = Append(trace, "notFound")
  /\ pc' = Unwind(opts, "route")
  /\ UNCHANGED <<opts, req, ctxHeaders, thrown, mapErrorCalls,
                 defaultMapperCalls, consoleError, served, logs, prev, call, apiVars>>

\* the host framework's own error handler: a plain-text 500
HostDefaultError == CText("Internal Server Error", 500)

\* a thrown value reaches the application's error handling: the installed
\* problemDetailsHandler, or the host default when none is installed.  Its
\* response is what the middlewares around the route see when their next()
\* resolves; an exception of the hook itself passes them all
OnError ==
  /\ pc = "error"
  /\ trace' = Append(trace, "onError")
  /\ IF InstallsErrorHook(opts)
       THEN LET h == problemDetailsHandler(opts.mapError, thrown, req)
            IN /\ outcome' = Finalize(h.result, ctxHeaders)
               /\ answeredBy' = "onError"
               /\ mapErrorCalls' = mapErrorCalls + (IF h.mapErrorCalled THEN 1 ELSE 0)
               /\ defaultMapperCalls' =
                    defaultMapperCalls + (IF h.defaultCalled THEN 1 ELSE 0)
               /\ consoleError' = consoleError \o h.logged
               /\ pc' = IF h.result.tag = "response"
                          THEN Unwind(opts, "route") ELSE "done"
       ELSE /\ outcome' = Finalize(HostDefaultError, ctxHeaders)
            /\ answeredBy' = "hostDefault"
            /\ pc' = Unwind(opts, "route")
            /\ UNCHANGED <<mapErrorCalls, defaultMapperCalls, consoleError>>
  /\ UNCHANGED <<opts, req, ctxHeaders, thrown, served, logs, prev, call, apiVars>>

\* the ETag middleware after next(): it tags the response or answers 304
EtagPost ==
  /\ pc = "etagPost"
  /\ outcome' = Returned(etag(opts.etagOptions, req.ifNoneMatch, req.method,
                              outcome.res))
  /\ trace' = Append(trace, "etagPost")
  /\ pc' = Unwind(opts, "etag")
  /\ UNCHANGED <<opts, req, ctxHeaders, thrown, answeredBy, mapErrorCalls,
                 defaultMapperCalls, consoleError, served, logs, prev, call, apiVars>>

\* the logger middleware after next(): the outgoing line with the status
LoggerPost ==
  /\ pc = "loggerPost"
  /\ logs' = Append(logs, [dir |-> "-->", method |-> req.method,
                           path |-> req.path, status |-> outcome.res.status])
  /\ trace' = Append(trace, "loggerPost")
  /\ pc' = "done"
  /\ UNCHANGED <<opts, req, ctxHeaders, thrown, outcome, answeredBy,
                 mapErrorCalls, defaultMapperCalls, consoleError, served,
                 prev, call, apiVars>>

\* the outcome is delivered to the client, which keeps the ETag of the
\* response; the application is idle again
Complete ==
  /\ pc = "done"
  /\ pc' = "idle"
  /\ prev' = IF outcome.tag = "response" /\ "ETag" \in DOMAIN outcome.res.headers
               THEN [path |-> req.path, etag |-> outcome.res.headers["ETag"]]
               ELSE prev
  /\ req' = NoRequest
  /\ ctxHeaders' = NoHeaders
  /\ thrown' = NoThrown
  /\ outcome' = NoOutcome
  /\ answeredBy' = "none"
  /\ mapErrorCalls' = 0
  /\ defaultMapperCalls' = 0
  /\ consoleError' = <<>>
  /\ trace' = <<>>
  /\ logs' = <<>>
  /\ served' = served + 1
  /\ UNCHANGED <<opts, call, apiVars>>

Next ==
  \/ \E m \in Methods, p \in Paths, t \in {<<>>, StaleETag, prev.etag} :
       Receive(m, p, t)
  \/ Logger
  \/ Cors
  \/ Etag
  \/ RouteReturns
  \/ \E e \in ErrorValues : RouteThrows(e)
  \/ NotFound
  \/ OnError
  \/ EtagPost
  \/ LoggerPost
  \/ Complete

Spec == Init /\ [][Next]_vars

(***************************************************************************)
(* Direct calls of the response helpers                                    *)
(***************************************************************************)
\* an ETag a caller hands to a response helper
SampleETag == <<"W", "/", Quote, "1", Quote>>

\* an options member that may be absent
OptMember(f, vals) == {NoOptions} \cup {[x \in {f} |-> v] : v \in vals}

ProblemStatuses == {204, 304, 400, 403, 404, 409, 412, 418, 500}

GivenProblems ==
  {ProblemDocument([status |-> 404, detail |-> "todo not found"]),
   ProblemDocument([status |-> 418, detail |-> "kettle",
                    title |-> "Custom Error Mapped",
                    instance |-> "/error/custom"])}

\* HttpProblemResponseOptions values
ProblemOptions ==
  {a @@ b @@ l @@ e :
     a \in OptMember("problem", GivenProblems),
     b \in OptMember("problemDetails", {"", "not found"}),
     l \in OptMember("location", {<<>>, <<"/", "l">>}),
     e \in OptMember("eTag", {<<>>, SampleETag})}

RequestUrls == {<<"h">>, <<"h", "/">>, <<"h", "/", "t">>}

CreatedIds == {<<>>, <<"a">>, <<"a", "b">>}

\* CreatedHttpResponseOptions values: a createdId or a url is present
CreatedOptions ==
  {o \in {i @@ u @@ e :
            i \in OptMember("createdId", CreatedIds),
            u \in OptMember("url", {<<>>, <<"/", "c">>}),
            e \in OptMember("eTag", {<<>>, SampleETag})} :
     "createdId" \in DOMAIN o \/ "url" \in DOMAIN o}

HelperInit ==
  /\ opts = [apis |-> {}, enableCors |-> FALSE, mapError |-> "none",
             disableProblemDetails |-> FALSE, enableETag |-> FALSE,
             etagOptions |-> NoOptions, enableLogger |-> FALSE]
  /\ IdleRequest
  /\ served = 0
  /\ prev = NoPrev
  /\ call = NoCall
  /\ ApiIdle

\* one call of a helper; the call and its result are recorded
CallSendProblem(url, status, options) ==
  /\ call = NoCall
  /\ call' = [fn |-> "sendProblem", url |-> url, status |-> status,
              options |-> options,
              result |-> sendProblem([url |-> url], status, options)]
  /\ UNCHANGED <<pipelineVars, apiVars>>

CallSendCreated(url, options) ==
  /\ call = NoCall
  /\ call' = [fn |-> "sendCreated", url |-> url, options |-> options,
              result |-> sendCreated([url |-> url], options)]
  /\ UNCHANGED <<pipelineVars, apiVars>>

\* the handler problemDetailsHandler(mapError) returns, called directly with
\* any value, an Error or not
CallErrorHook(kind, err) ==
  /\ call = NoCall
  /\ call' = [fn |-> "problemDetailsHandler", mapError |-> kind, err |-> err,
              result |-> problemDetailsHandler(kind, err, [url |-> <<"h">>]).result]
  /\ UNCHANGED <<pipelineVars, apiVars>>

\* an ETag a route handler sets itself
ManualETag == <<"W", "/", Quote, "m", Quote>>

MiddlewareMethods == {"GET", "HEAD", "POST", "OPTIONS"}

\* responses a route handler, the notFound handler or the error hook can
\* leave on the context: no body on the null-body statuses
DownstreamResponses ==
  {r \in [status : {200, 201, 204, 304, 404, 500},
          body : {NullBody, TextBody(""), TextBody("pong")},
          headers : {SetHeader(NoHeaders, "Content-Type", "text/plain"),
                     SetHeader(SetHeader(NoHeaders, "Content-Type", "text/plain"),
                               "ETag", ManualETag)}] :
     r.status \in NullBodyStatuses => r.body = NullBody}

\* the applyETag middleware run around a next() that left res on the context
CallApplyETag(options, method, res) ==
  /\ call = NoCall
  /\ call' = [fn |-> "applyETag", options |-> options, method |-> method,
              res |-> res, result |-> applyETag(options, method, res)]
  /\ UNCHANGED <<pipelineVars, apiVars>>

HelperNext ==
  \/ \E u \in RequestUrls, s \in ProblemStatuses, o \in ProblemOptions :
       CallSendProblem(u, s, o)
  \/ \E u \in RequestUrls, o \in CreatedOptions : CallSendCreated(u, o)
  \/ \E k \in MapErrorKinds, e \in ThrownValues : CallErrorHook(k, e)
  \/ \E o \in ETagOptionValues, m \in MiddlewareMethods,
        r \in DownstreamResponses : CallApplyETag(o, m, r)

HelperSpec == HelperInit /\ [][HelperNext]_vars

(***************************************************************************)
(* testing/hono-api/shoppingCartApi.ts: the shopping-cart API              *)
(***************************************************************************)
\* number of requests one run of an API of the tests answers
MaxApiRequests == 4

DigitChars == <<"0", "1", "2", "3", "4", "5", "6", "7", "8", "9">>

IsDigit(ch) == \E i \in 1..10 : DigitChars[i] = ch

DigitValue(ch) == (CHOOSE i \in 1..10 : DigitChars[i] = ch) - 1

\* `${value}` for a non-negative integer
RECURSIVE Decimal(_)
Decimal(n) ==
  IF n < 10 THEN <<DigitChars[n + 1]>>
  ELSE Decimal(n \div 10) \o <<DigitChars[(n % 10) + 1]>>

\* BigInt(text) for a text of decimal digits; the empty text gives 0
RECURSIVE ParseDigits(_)
ParseDigits(s) ==
  IF s = <<>> THEN 0
  ELSE 10 * ParseDigits(SubSeq(s, 1, Len(s) - 1)) + DigitValue(s[Len(s)])

\* toWeakETag(value)
toWeakETag(value) == <<"W", "/", Quote>> \o Decimal(value) \o <<Quote>>

\* (c.req.header('if-match') ?? '').replace(/\D/g, ''), read as a number
ExpectedFromIfMatch(ifMatch) == ParseDigits(SelectSeq(ifMatch, IsDigit))

\* expectedStreamVersion: STREAM_DOES_NOT_EXIST
STREAM_DOES_NOT_EXIST == -1

CartCommands ==
  {"OpenShoppingCart", "AddProductItemToShoppingCart", "ConfirmShoppingCart",
   "CancelShoppingCart"}

\* the event a command of the cart decider results in
CartEventOf(command) ==
  CASE command = "OpenShoppingCart" -> "ShoppingCartOpened"
    [] command = "AddProductItemToShoppingCart" -> "ProductItemAddedToShoppingCart"
    [] command = "ConfirmShoppingCart" -> "ShoppingCartConfirmed"
    [] OTHER -> "ShoppingCartCancelled"

\* a confirmed or cancelled cart is closed
CartIsClosed(stream) ==
  /\ stream # <<>>
  /\ stream[Len(stream)] \in {"ShoppingCartConfirmed", "ShoppingCartCancelled"}

ExpectedVersionConflictError ==
  [class |-> "ExpectedVersionConflictError", message |-> "version conflict",
   status |-> 0]

CartIsAlreadyClosed ==
  [class |-> "IllegalStateError", message |-> "CART_IS_ALREADY_CLOSED",
   status |-> 0]

\* the event store's check of the expected against the current version
VersionMatches(current, expected) ==
  IF expected = STREAM_DOES_NOT_EXIST THEN current = 0
  ELSE expected = current

\* handle(store, cartId, command, {expectedStreamVersion}): the version is
\* checked first, then the decider decides; on success one event is
\* appended and the next expected version is the new length of the stream
handle(store, cartId, command, expected) ==
  LET stream == store[cartId]
  IN IF ~VersionMatches(Len(stream), expected)
       THEN [tag |-> "throw", error |-> ExpectedVersionConflictError,
             store |-> store]
     ELSE IF CartIsClosed(stream)
       THEN [tag |-> "throw", error |-> CartIsAlreadyClosed, store |-> store]
     ELSE [tag |-> "ok",
           store |-> [store EXCEPT ![cartId] = Append(@, CartEventOf(command))],
           nextExpectedStreamVersion |-> Len(stream) + 1]

\* sendNoContent(c, options)
sendNoContent(c, options) ==
  LET response == CBodyNull(204).res
      h1 == IF HasTruthySeq(options, "eTag")
              THEN SetHeader(response.headers, "ETag", options["eTag"])
              ELSE response.headers
      h2 == IF HasTruthySeq(options, "location")
              THEN SetHeader(h1, "Location", options["location"]) ELSE h1
  IN Returned([status |-> response.status, headers |-> h2,
               body |-> response.body])

sendForbidden(c, options) == sendProblem(c, 403, options)

\* mapCartsError is the mapError of the cart application
CartErrorHook(err, c) == problemDetailsHandler("carts", err, c).result

\* POST /clients/:client/cart
openCart(store, c, client) ==
  LET result == handle(store, client, "OpenShoppingCart", STREAM_DOES_NOT_EXIST)
  IN [store |-> result.store,
      result |-> IF result.tag = "throw" THEN CartErrorHook(result.error, c)
                 ELSE sendCreated(c,
                        [createdId |-> client,
                         eTag |-> toWeakETag(result.nextExpectedStreamVersion)])]

\* POST /clients/:client/cart/:cartId/items and .../confirm
cartCommand(store, c, cartId, command, ifMatch) ==
  LET expected == ExpectedFromIfMatch(ifMatch)
      result == handle(store, cartId, command, expected)
  IN [store |-> result.store,
      result |-> IF result.tag = "throw" THEN CartErrorHook(result.error, c)
                 ELSE sendNoContent(c,
                        [eTag |-> toWeakETag(result.nextExpectedStreamVersion)])]

\* DELETE /clients/:client/cart/:cartId: every error of handle is caught
\* and answered 403 with the error's message as detail
cancelCart(store, c, cartId, ifMatch) ==
  LET expected == ExpectedFromIfMatch(ifMatch)
      result == handle(store, cartId, "CancelShoppingCart", expected)
  IN [store |-> result.store,
      result |-> IF result.tag = "throw"
                   THEN sendForbidden(c, [problemDetails |-> result.error.message])
                 ELSE sendNoContent(c, NoOptions)]

\* If-Match values a client sends: the weak ETag of a version, or <<>> for
\* a request without the header
IfMatchValues == {<<>>} \cup {toWeakETag(v) : v \in 0..3}

CartContext == [url |-> <<"h">>]

\* one request to the cart API and its answer; before and after are the
\* lengths of the cart's stream
CartReply(op, cartId, ifMatch, r) ==
  [seq |-> apiCalls + 1, op |-> op, cart |-> cartId, ifMatch |-> ifMatch,
   before |-> Len(streams[cartId]), after |-> Len(r.store[cartId]),
   result |-> r.result]

CartAnswers(op, cartId, ifMatch, r) ==
  /\ streams' = r.store
  /\ reply' = CartReply(op, cartId, ifMatch, r)
  /\ apiCalls' = apiCalls + 1
  /\ UNCHANGED <<pipelineVars, call, todos, versions, events, issued, storeVars>>

OpenCart(client) ==
  /\ apiCalls < MaxApiRequests
  /\ CartAnswers("open", client, <<>>,
                 openCart(streams, CartContext, client))

AddItem(cartId, ifMatch) ==
  /\ apiCalls < MaxApiRequests
  /\ CartAnswers("add", cartId, ifMatch,
                 cartCommand(streams, CartContext, cartId,
                             "AddProductItemToShoppingCart", ifMatch))

ConfirmCart(cartId, ifMatch) ==
  /\ apiCalls < MaxApiRequests
  /\ CartAnswers("confirm", cartId, ifMatch,
                 cartCommand(streams, CartContext, cartId,
                             "ConfirmShoppingCart", ifMatch))

CancelCart(cartId, ifMatch) ==
  /\ apiCalls < MaxApiRequests
  /\ CartAnswers("cancel", cartId, ifMatch,
                 cancelCart(streams, CartContext, cartId, ifMatch))

CartNext ==
  \/ \E client \in CartIds : OpenCart(client)
  \/ \E id \in CartIds, m \in IfMatchValues : AddItem(id, m)
  \/ \E id \in CartIds, m \in IfMatchValues : ConfirmCart(id, m)
  \/ \E id \in CartIds, m \in IfMatchValues : CancelCart(id, m)

\* the cart application of the tests, with a new in-memory event store
CartInit ==
  /\ opts = [apis |-> {}, enableCors |-> FALSE, mapError |-> "carts",
             disableProblemDetails |-> FALSE, enableETag |-> TRUE,
             etagOptions |-> NoOptions, enableLogger |-> FALSE]
  /\ IdleRequest
  /\ served = 0
  /\ prev = NoPrev
  /\ call = NoCall
  /\ ApiIdle

CartSpec == CartInit /\ [][CartNext]_vars

(***************************************************************************)
(* testing/businessLogicErrors.spec.ts: the todo API with optimistic       *)
(* concurrency and a business rule                                         *)
(***************************************************************************)
\* ids crypto.randomUUID() gives to new todos
TodoIds == {<<"t">>, <<"u">>}

\* an id no todo was created with
UnknownTodoId == <<"n">>

Titles == {"x", "y"}

\* toETag(v)
toETag(v) == <<Quote>> \o Decimal(v) \o <<Quote>>

sendConflict(c, options) == sendProblem(c, 409, options)

sendPreconditionFailed(c, options) == sendProblem(c, 412, options)

\* response.headers.set('ETag', value) on a returned response
WithETag(result, value) ==
  Returned([result.res EXCEPT !.headers = SetHeader(@, "ETag", value)])

\* current.title = ..., todo.done = true: the TodoCreated event of a todo
\* holds the todo object itself, so it shows the change too
Aliased(log, id, todo) ==
  [i \in DOMAIN log |->
     IF log[i].id = id /\ log[i].aliased
       THEN [log[i] EXCEPT !.data = todo] ELSE log[i]]

TodoContext == [url |-> <<"h">>]

\* POST /todos with a title; id is the new random id
createTodo(s, c, id, title) ==
  LET todo == [title |-> title, done |-> FALSE]
  IN [todos |-> (id :> todo) @@ s.todos,
      versions |-> (id :> 1) @@ s.versions,
      events |-> Append(s.events, [type |-> "TodoCreated", id |-> id,
                                   data |-> todo, aliased |-> TRUE]),
      result |-> WithETag(sendCreated(c, [createdId |-> id]), toETag(1))]

Unchanged(s, result) ==
  [todos |-> s.todos, versions |-> s.versions, events |-> s.events,
   result |-> result]

\* PUT /todos/:id with an optional If-Match and a body that may carry a title
updateTodo(s, c, id, ifMatch, body) ==
  IF id \notin DOMAIN s.todos
    THEN Unchanged(s, sendNotFound(c, [problemDetails |-> "todo not found"]))
  ELSE
    LET current == s.todos[id]
        expected == toETag(s.versions[id])
        nextTitle == IF "title" \in DOMAIN body THEN body["title"]
                     ELSE current.title
        updated == [current EXCEPT !.title = nextTitle]
    IN IF TruthySeq(ifMatch) /\ ifMatch # expected
         THEN Unchanged(s, sendPreconditionFailed(c,
                             [problemDetails |-> "ETag mismatch"]))
       ELSE IF nextTitle = current.title
         THEN Unchanged(s, sendNoContent(c, NoOptions))
       ELSE [todos |-> [s.todos EXCEPT ![id] = updated],
             versions |-> [s.versions EXCEPT ![id] = @ + 1],
             events |-> Append(Aliased(s.events, id, updated),
                               [type |-> "TodoCreated", id |-> id,
                                data |-> updated, aliased |-> FALSE]),
             result |-> WithETag(sendNoContent(c, NoOptions),
                                 toETag(s.versions[id] + 1))]

\* a complete handler that records the completion before it looks whether
\* the todo is already done
completeTodo_AppendFirst(s, c, id) ==
  IF id \notin DOMAIN s.todos
    THEN Unchanged(s, sendNotFound(c, [problemDetails |-> "todo not found"]))
  ELSE
    LET todo == s.todos[id]
        done == [todo EXCEPT !.done = TRUE]
    IN [todos |-> [s.todos EXCEPT ![id] = done],
        versions |-> [s.versions EXCEPT ![id] = @ + 1],
        events |-> Append(Aliased(s.events, id, done),
                          [type |-> "TodoCompleted", id |-> id,
                           data |-> done, aliased |-> FALSE]),
        result |-> IF todo.done
                     THEN sendConflict(c, [problemDetails |-> "todo already completed"])
                     ELSE sendNoContent(c, NoOptions)]

\* PUT /todos/:id/complete
completeTodo(s, c, id) ==
  IF id \notin DOMAIN s.todos
    THEN Unchanged(s, sendNotFound(c, [problemDetails |-> "todo not found"]))
  ELSE
    LET todo == s.todos[id]
        done == [todo EXCEPT !.done = TRUE]
    IN IF todo.done
         THEN Unchanged(s, sendConflict(c,
                             [problemDetails |-> "todo already completed"]))
       ELSE [todos |-> [s.todos EXCEPT ![id] = done],
             versions |-> [s.versions EXCEPT ![id] = @ + 1],
             events |-> Append(Aliased(s.events, id, done),
                               [type |-> "TodoCompleted", id |-> id,
                                data |-> done, aliased |-> FALSE]),
             result |-> sendNoContent(c, NoOptions)]

\* the stores of the todo API
TodoStores == [todos |-> todos, versions |-> versions, events |-> events]

\* If-Match values a client of the todo API sends; <<>> is no header
TodoIfMatchValues == {<<>>, toETag(1), toETag(2), <<Quote, "9", "9", "9", Quote>>}

TodoBodies == {NoOptions} \cup {[title |-> v] : v \in Titles}

\* one request to the todo API and its answer; before holds the stores as
\* the request found them
TodoAnswers(op, id, ifMatch, r) ==
  /\ todos' = r.todos
  /\ versions' = r.versions
  /\ events' = r.events
  /\ reply' = [op |-> op, id |-> id, ifMatch |-> ifMatch,
               before |-> TodoStores, result |-> r.result]
  /\ apiCalls' = apiCalls + 1
  /\ UNCHANGED <<pipelineVars, call, streams, issued, storeVars>>

CreateTodo(id, title) ==
  /\ apiCalls < MaxApiRequests
  /\ id \notin DOMAIN todos
  /\ TodoAnswers("create", id, <<>>, createTodo(TodoStores, TodoContext, id, title))

UpdateTodo(id, ifMatch, body) ==
  /\ apiCalls < MaxApiRequests
  /\ TodoAnswers("update", id, ifMatch,
                 updateTodo(TodoStores, TodoContext, id, ifMatch, body))

CompleteTodo(id) ==
  /\ apiCalls < MaxApiRequests
  /\ TodoAnswers("complete", id, <<>>, completeTodo(TodoStores, TodoContext, id))

\* a request no route of the API matches, such as GET /todos/nonexistent
UnroutedTodo ==
  /\ apiCalls < MaxApiRequests
  /\ TodoAnswers("unrouted", UnknownTodoId, <<>>,
                 Unchanged(TodoStores,
                   sendNotFound(TodoContext,
                     [problemDetails |-> "The requested resource was not found"])))

TodoNext ==
  \/ \E id \in TodoIds, title \in Titles : CreateTodo(id, title)
  \/ \E id \in TodoIds \cup {UnknownTodoId}, m \in TodoIfMatchValues,
        b \in TodoBodies : UpdateTodo(id, m, b)
  \/ \E id \in TodoIds \cup {UnknownTodoId} : CompleteTodo(id)
  \/ UnroutedTodo

\* getApplication({apis: [registerTodoApi]}) with the stores emptied
TodoInit ==
  /\ opts = [apis |-> {}, enableCors |-> FALSE, mapError |-> "none",
             disableProblemDetails |-> FALSE, enableETag |-> FALSE,
             etagOptions |-> NoOptions, enableLogger |-> FALSE]
  /\ IdleRequest
  /\ served = 0
  /\ prev = NoPrev
  /\ call = NoCall
  /\ ApiIdle

TodoSpec == TodoInit /\ [][TodoNext]_vars

(***************************************************************************)
(* testing/hono-api/shoppingCartApi.ts, second part: the todo API with     *)
(* conditional GET                                                         *)
(***************************************************************************)
\* res = c.json(value); res.headers.set('ETag', tag)
JsonWithETag(value, tag) == WithETag(CJson(value, 200, NoHeaders), tag)

\* c.body(null, 304, {ETag: tag})
NotModified(tag) == NewResponse(NullBody, 304, "ETag" :> tag)

\* Math.max(0, ...versions)
RECURSIVE MaxVersion(_)
MaxVersion(items) ==
  IF DOMAIN items = {} THEN 0
  ELSE LET id == CHOOSE i \in DOMAIN items : TRUE
           rest == MaxVersion([j \in DOMAIN items \ {id} |-> items[j]])
       IN IF items[id].version > rest THEN items[id].version ELSE rest

\* toWeakETag(`v${items.length}:${maxVersion}`)
listTag(items) ==
  <<"W", "/", Quote, "v">> \o Decimal(Cardinality(DOMAIN items)) \o <<":">>
    \o Decimal(MaxVersion(items)) \o <<Quote>>

\* GET /todos
listTodos(items, ifNoneMatch) ==
  IF ifNoneMatch = listTag(items) THEN NotModified(listTag(items))
  ELSE JsonWithETag([id \in DOMAIN items |->
                       [id |-> id, title |-> items[id].title,
                        done |-> items[id].done,
                        version |-> items[id].version]],
                    listTag(items))

\* a GET /todos/:id that never looks at If-None-Match
getTodo_Unconditional(items, c, id, ifNoneMatch) ==
  IF id \notin DOMAIN items
    THEN sendNotFound(c, [problemDetails |-> "todo not found"])
  ELSE JsonWithETag([id |-> id, title |-> items[id].title,
                     done |-> items[id].done],
                    toWeakETag(items[id].version))

\* GET /todos/:id
getTodo(items, c, id, ifNoneMatch) ==
  IF id \notin DOMAIN items
    THEN sendNotFound(c, [problemDetails |-> "todo not found"])
  ELSE LET tag == toWeakETag(items[id].version)
       IN IF ifNoneMatch = tag THEN NotModified(tag)
          ELSE JsonWithETag([id |-> id, title |-> items[id].title,
                             done |-> items[id].done], tag)

\* POST /todos with a title; id is the new random id
postTodo(items, c, id, title) ==
  [todos |-> (id :> [title |-> title, done |-> FALSE, version |-> 1]) @@ items,
   result |-> WithETag(sendCreated(c, [createdId |-> id]), toWeakETag(1))]

\* If-None-Match values a client sends besides the tags it was given;
\* <<>> is no header
OtherTags == {<<>>, toWeakETag(2)}

\* the tags the client holds for a todo
HeldTags(id) == IF id \in DOMAIN issued THEN {issued[id]} ELSE {}

\* one request to the query API and its answer
QueryAnswers(op, id, ifNoneMatch, items, result) ==
  /\ todos' = items
  /\ reply' = [op |-> op, id |-> id, ifNoneMatch |-> ifNoneMatch,
               result |-> result]
  /\ apiCalls' = apiCalls + 1
  /\ UNCHANGED <<pipelineVars, call, streams, versions, events, storeVars>>

PostTodo(id, title) ==
  /\ apiCalls < MaxApiRequests
  /\ id \notin DOMAIN todos
  /\ LET r == postTodo(todos, TodoContext, id, title)
     IN /\ QueryAnswers("post", id, <<>>, r.todos, r.result)
        /\ issued' = (id :> r.result.res.headers["ETag"]) @@ issued

GetTodo(id, ifNoneMatch) ==
  /\ apiCalls < MaxApiRequests
  /\ QueryAnswers("get", id, ifNoneMatch, todos,
                  getTodo(todos, TodoContext, id, ifNoneMatch))
  /\ UNCHANGED issued

ListTodos(ifNoneMatch) ==
  /\ apiCalls < MaxApiRequests
  /\ QueryAnswers("list", <<>>, ifNoneMatch, todos,
                  listTodos(todos, ifNoneMatch))
  /\ UNCHANGED issued

QueryNext ==
  \/ \E id \in TodoIds, title \in Titles : PostTodo(id, title)
  \/ \E id \in TodoIds \cup {UnknownTodoId} :
       \E t \in OtherTags \cup HeldTags(id) : GetTodo(id, t)
  \/ \E t \in OtherTags \cup {listTag(todos)} : ListTodos(t)

\* getApplication({apis: [registerTodoQueries], enableETag: false}) with
\* no todos
QueryInit ==
  /\ opts = [apis |-> {}, enableCors |-> FALSE, mapError |-> "none",
             disableProblemDetails |-> FALSE, enableETag |-> FALSE,
             etagOptions |-> NoOptions, enableLogger |-> FALSE]
  /\ IdleRequest
  /\ served = 0
  /\ prev = NoPrev
  /\ call = NoCall
  /\ ApiIdle

QuerySpec == QueryInit /\ [][QueryNext]_vars

(***************************************************************************)
(* responses.ts: the simple helpers and the Legacy shim                    *)
(***************************************************************************)
\* the response c.json(body, status) or c.body(null, status) gives, then
\* headers set on it
WithHeader(result, name, value) ==
  Returned([result.res EXCEPT !.headers = SetHeader(@, name, value)])

sendOK(c, options) ==
  LET response == IF HasTruthyStr(options, "body")
                    THEN CJson(options["body"], 200, NoHeaders)
                    ELSE CBodyNull(200)
      r1 == IF HasTruthySeq(options, "eTag")
              THEN WithHeader(response, "ETag", options["eTag"]) ELSE response
  IN IF HasTruthySeq(options, "location")
       THEN WithHeader(r1, "Location", options["location"]) ELSE r1

sendAccepted(c, options) ==
  LET response == IF HasTruthyStr(options, "body")
                    THEN CJson(options["body"], 202, NoHeaders)
                    ELSE CBodyNull(202)
      r1 == WithHeader(response, "Location", options["location"])
  IN IF HasTruthySeq(options, "eTag")
       THEN WithHeader(r1, "ETag", options["eTag"]) ELSE r1

sendBadRequest(c, options) == sendProblem(c, 400, options)

\* a JavaScript value handed to a Legacy helper: undefined, a string or an
\* options object
Undefined == [kind |-> "undefined"]

StringValue(s) == [kind |-> "string", value |-> s]

ObjectValue(o) == [kind |-> "object", value |-> o]

\* options ?? {} and options?.member: what a send* helper reads from the
\* value it is handed
Members(v) == IF v.kind = "object" THEN v.value ELSE NoOptions

\* a shim that forgets the string form
normalizeLegacyProblemOptions_DropString(options) == Members(options)

normalizeLegacyProblemOptions(options) ==
  IF options.kind = "string" THEN [problemDetails |-> options.value]
  ELSE Members(options)

LegacyPlainHelpers == {"OK", "Created", "Accepted", "NoContent"}

LegacyProblemHelpers ==
  {"BadRequest", "Forbidden", "NotFound", "Conflict", "PreconditionFailed",
   "HttpProblem"}

\* Legacy.<helper>(options)(c); statusCode is read by HttpProblem only
Legacy(helper, statusCode, options, c) ==
  CASE helper = "OK" -> sendOK(c, Members(options))
    [] helper = "Created" -> sendCreated(c, Members(options))
    [] helper = "Accepted" -> sendAccepted(c, Members(options))
    [] helper = "NoContent" -> sendNoContent(c, Members(options))
    [] helper = "BadRequest" ->
         sendBadRequest(c, normalizeLegacyProblemOptions(options))
    [] helper = "Forbidden" ->
         sendForbidden(c, normalizeLegacyProblemOptions(options))
    [] helper = "NotFound" ->
         sendNotFound(c, normalizeLegacyProblemOptions(options))
    [] helper = "Conflict" ->
         sendConflict(c, normalizeLegacyProblemOptions(options))
    [] helper = "PreconditionFailed" ->
         sendPreconditionFailed(c, normalizeLegacyProblemOptions(options))
    [] helper = "HttpProblem" ->
         sendProblem(c, statusCode, normalizeLegacyProblemOptions(options))

\* HttpResponseOptions values
ResponseOptions ==
  {b @@ l @@ e :
     b \in OptMember("body", {"", "data"}),
     l \in OptMember("location", {<<>>, <<"/", "l">>}),
     e \in OptMember("eTag", {<<>>, SampleETag})}

\* the values each Legacy helper accepts
LegacyArguments(helper) ==
  CASE helper = "OK" -> {Undefined} \cup {ObjectValue(o) : o \in ResponseOptions}
    [] helper = "Created" -> {ObjectValue(o) : o \in CreatedOptions}
    [] helper = "Accepted" ->
         {ObjectValue(o) : o \in {r \in ResponseOptions : "location" \in DOMAIN r}}
    [] helper = "NoContent" ->
         {Undefined} \cup
         {ObjectValue(o) : o \in {r \in ResponseOptions : "body" \notin DOMAIN r}}
    [] OTHER ->
         {Undefined, StringValue(""), StringValue("not found")} \cup
         {ObjectValue(o) : o \in ProblemOptions}

\* one call of a Legacy helper; the call and its result are recorded
CallLegacy(helper, url, statusCode, options) ==
  /\ call = NoCall
  /\ call' = [fn |-> "Legacy", helper |-> helper, url |-> url,
              status |-> statusCode, options |-> options,
              result |-> Legacy(helper, statusCode, options, [url |-> url])]
  /\ UNCHANGED <<pipelineVars, apiVars>>

\* only HttpProblem takes a status code
LegacyStatuses(helper) ==
  IF helper = "HttpProblem" THEN ProblemStatuses ELSE {0}

LegacyNext ==
  \E h \in LegacyPlainHelpers \cup LegacyProblemHelpers, u \in RequestUrls :
    \E s \in LegacyStatuses(h), o \in LegacyArguments(h) :
      CallLegacy(h, u, s, o)

LegacySpec == HelperInit /\ [][LegacyNext]_vars

(***************************************************************************)
(* types.ts and middlewares/value.ts: the weak ETag helpers                 *)
(***************************************************************************)
MaxETagLen == 5

\* a line feed, one of the characters "." of a regular expression does not
\* match
LF == "\n"

LineTerminators == {LF}

ETagChars == {"W", "/", Quote, "4", LF}

\* strings of at most n characters
StringsUpTo(n) == UNION {[1..k -> ETagChars] : k \in 0..n}

\* a number or a bigint handed to toWeakETag
NumberValue(n) == [kind |-> "number", value |-> n]

BigIntValue(n) == [kind |-> "bigint", value |-> n]

\* `${value}`: the string a template literal makes of a value
Stringify(v) ==
  IF v.kind = "string" THEN v.value
  ELSE IF v.kind = "undefined"
    THEN <<"u", "n", "d", "e", "f", "i", "n", "e", "d">>
  ELSE Decimal(v.value)

\* toWeakETag(value) for a value of any of its three types
toWeakETagOf(v) == <<"W", "/", Quote>> \o Stringify(v) \o <<Quote>>

\* WeakETagRegex = /^W\/"(.*)"$/ matches s: "." matches no line terminator
WeakETagRegexMatches(s) ==
  /\ Len(s) >= 4
  /\ s[1] = "W" /\ s[2] = "/" /\ s[3] = Quote
  /\ s[Len(s)] = Quote
  /\ \A i \in 4..(Len(s) - 1) : s[i] \notin LineTerminators

\* the first group of the match
WeakETagRegexGroup(s) == SubSeq(s, 4, Len(s) - 1)

isWeakETag(value) ==
  value.kind = "string" /\ WeakETagRegexMatches(value.value)

WRONG_WEAK_ETAG_FORMAT ==
  [class |-> "Error", message |-> "WRONG_WEAK_ETAG_FORMAT", status |-> 0]

Value(v) == [tag |-> "value", value |-> v]

\* a getWeakETagValue that returns the text between the ends unchecked
getWeakETagValue_Unchecked(value) ==
  Value(WeakETagRegexGroup(Stringify(value)))

\* WeakETagRegex.exec(value) turns its argument into a string first
getWeakETagValue(value) ==
  IF WeakETagRegexMatches(Stringify(value))
    THEN Value(WeakETagRegexGroup(Stringify(value)))
    ELSE Raised(WRONG_WEAK_ETAG_FORMAT)

\* the values handed to isWeakETag and getWeakETagValue
ETagArguments ==
  {Undefined} \cup {StringValue(s) : s \in StringsUpTo(MaxETagLen)}

\* the values handed to toWeakETag
ETagSources ==
  {NumberValue(n) : n \in {0, 7, 42}} \cup {BigIntValue(n) : n \in {0, 42}}
    \cup {StringValue(s) : s \in StringsUpTo(2)}

CallIsWeakETag(value) ==
  /\ call = NoCall
  /\ call' = [fn |-> "isWeakETag", etag |-> value, result |-> isWeakETag(value)]
  /\ UNCHANGED <<pipelineVars, apiVars>>

CallGetWeakETagValue(value) ==
  /\ call = NoCall
  /\ call' = [fn |-> "getWeakETagValue", etag |-> value,
              result |-> getWeakETagValue(value)]
  /\ UNCHANGED <<pipelineVars, apiVars>>

\* getWeakETagValue(toWeakETag(v))
CallRoundTrip(v) ==
  /\ call = NoCall
  /\ call' = [fn |-> "roundTrip", value |-> v,
              result |-> getWeakETagValue(StringValue(toWeakETagOf(v)))]
  /\ UNCHANGED <<pipelineVars, apiVars>>

ETagNext ==
  \/ \E a \in ETagArguments : CallIsWeakETag(a)
  \/ \E a \in ETagArguments : CallGetWeakETagValue(a)
  \/ \E v \in ETagSources : CallRoundTrip(v)

ETagSpec == HelperInit /\ [][ETagNext]_vars

(***************************************************************************)
(* middlewares/loggerMiddleware.ts: applyLogger in the application         *)
(* handler.ts builds                                                       *)
(***************************************************************************)
defaultLoggerOptions == [timing |-> "info"]

LoggerOptionValues ==
  {NoOptions} \cup {[timing |-> v] : v \in {"info", "debug", "none"}}

\* what a route does with a request: it returns a response, it throws an
\* Error, or no route matches
Route(r) == [tag |-> "response", res |-> r]

RouteThrew(err) == [tag |-> "throw", error |-> err]

Unrouted == [tag |-> "none"]

\* the host framework's own notFound handler: a plain-text 404
HostNotFound == CText("404 Not Found", 404)

\* await next() as the logger sees it: the host framework hands an Error a
\* handler throws to the installed error handler where it was thrown, and
\* next() resolves with that handler's response on the context; next()
\* rejects only when the error handler itself throws
Downstream(hookInstalled, kind, route, c) ==
  CASE route.tag = "response" -> Returned(route.res)
    [] route.tag = "none" -> HostNotFound
    [] route.tag = "throw" ->
         IF hookInstalled
           THEN problemDetailsHandler(kind, route.error, c).result
           ELSE HostDefaultError

\* one line handed to loggerOptions.logger, as the LogInfo it is made from
LogLine(method, url, status) ==
  [method |-> method, url |-> url, status |-> status]

\* a logger that writes nothing when next() rejects
applyLogger_SilentOnError(options, method, url, next) ==
  LET loggerOptions == options @@ defaultLoggerOptions
  IN IF next.tag = "response"
       THEN [logs |-> IF loggerOptions.timing = "none" THEN <<>>
                      ELSE <<LogLine(method, url, next.res.status)>>,
             outcome |-> next]
       ELSE [logs |-> <<>>, outcome |-> next]

\* the middleware applyLogger installs, run around a next() with the given
\* outcome: it returns the lines written and what it passes upwards
applyLogger(options, method, url, next) ==
  LET loggerOptions == options @@ defaultLoggerOptions
  IN IF next.tag = "response"
       THEN [logs |-> IF loggerOptions.timing = "none" THEN <<>>
                      ELSE <<LogLine(method, url, next.res.status)>>,
             outcome |-> next]
       ELSE [logs |-> IF loggerOptions.timing # "none"
                        THEN <<LogLine(method, url, 500)>> ELSE <<>>,
             outcome |-> next]

\* responses the routes of the tests return
RouteResponses ==
  {CText("Logger test", 200).res, CBodyNull(204).res,
   CJson([id |-> "1"], 201, NoHeaders).res}

RouteOutcomes ==
  {Route(r) : r \in RouteResponses} \cup {RouteThrew(e) : e \in ErrorValues}
    \cup {Unrouted}

\* one request to getApplication({enableLogger: true, loggerOptions,
\* mapError, disableProblemDetails}); the call and what the logger did are
\* recorded
CallApplyLogger(options, kind, disabled, method, route) ==
  /\ call = NoCall
  /\ LET c == [url |-> <<"h">>]
         next == Downstream(~disabled, kind, route, c)
     IN call' = [fn |-> "applyLogger", options |-> options, mapError |-> kind,
                 disableProblemDetails |-> disabled, method |-> method,
                 route |-> route, next |-> next,
                 result |-> applyLogger(options, method, c.url, next)]
  /\ UNCHANGED <<pipelineVars, apiVars>>

LoggerNext ==
  \E o \in LoggerOptionValues, k \in MapErrorKinds, d \in BOOLEAN,
     m \in {"GET", "POST"}, r \in RouteOutcomes :
    CallApplyLogger(o, k, d, m, r)

LoggerSpec == HelperInit /\ [][LoggerNext]_vars

(***************************************************************************)
(* middlewares/eventStore.ts: eventStoreMiddleware                         *)
(***************************************************************************)
MaxStoreRequests == 3

RequestIds == 1..MaxStoreRequests

\* the createStore factories: one the caller passes, and the default one,
\* which needs DATABASE_URL
Factories == {"custom", "default"}

\* createStore(): the n-th call returns store n; the default factory throws
\* when DATABASE_URL is not set
createStore(factory, hasDatabaseUrl, n) ==
  IF factory = "default" /\ ~hasDatabaseUrl
    THEN Raised("DATABASE_URL environment variable is not set")
    ELSE [tag |-> "store", store |-> n]

\* eventStoreMiddleware(createStore): the factory is called, and the
\* middleware closes over the store it gave
eventStoreMiddleware(factory, hasDatabaseUrl, calls) ==
  LET made == createStore(factory, hasDatabaseUrl, calls + 1)
  IN IF made.tag = "store"
       THEN [tag |-> "built", factory |-> factory, store |-> made.store]
       ELSE [tag |-> "failed", factory |-> factory]

\* a middleware that asks the factory for a store on every request
StoreFor_PerRequest(mw, calls) ==
  [store |-> calls + 1, calls |-> calls + 1]

\* the store the middleware puts on the context of a request, and the
\* factory calls made by then
StoreFor(mw, calls) == [store |-> mw.store, calls |-> calls]

NoVariables == [x \in {} |-> 0]

\* app.use('*', eventStoreMiddleware(...)) while the application is set up
BuildMiddleware(factory, hasDatabaseUrl) ==
  /\ middleware = NoMiddleware
  /\ middleware' = eventStoreMiddleware(factory, hasDatabaseUrl, storeCalls)
  /\ storeCalls' = storeCalls + 1
  /\ UNCHANGED <<pipelineVars, call, streams, todos, versions, events, issued,
                 reply, apiCalls, requests>>

\* a request reaches the application
Arrive(r) ==
  /\ middleware.tag = "built"
  /\ r \notin DOMAIN requests
  /\ requests' = (r :> [pc |-> "middleware", variables |-> NoVariables,
                        seen |-> 0]) @@ requests
  /\ UNCHANGED <<pipelineVars, call, streams, todos, versions, events, issued,
                 reply, apiCalls, storeCalls, middleware>>

\* c.set('eventStore', store), then next() is called
SetEventStore(r) ==
  /\ r \in DOMAIN requests
  /\ requests[r].pc = "middleware"
  /\ LET s == StoreFor(middleware, storeCalls)
     IN /\ requests' = [requests EXCEPT
                          ![r].variables = ("eventStore" :> s.store) @@ @,
                          ![r].pc = "handler"]
        /\ storeCalls' = s.calls
  /\ UNCHANGED <<pipelineVars, call, streams, todos, versions, events, issued,
                 reply, apiCalls, middleware>>

\* the next handler reads c.get('eventStore')
NextHandler(r) ==
  /\ r \in DOMAIN requests
  /\ requests[r].pc = "handler"
  /\ requests' = [requests EXCEPT ![r].seen = requests[r].variables["eventStore"],
                                  ![r].pc = "after"]
  /\ UNCHANGED <<pipelineVars, call, streams, todos, versions, events, issued,
                 reply, apiCalls, storeCalls, middleware>>

\* await next() resolves and the middleware returns
Leave(r) ==
  /\ r \in DOMAIN requests
  /\ requests[r].pc = "after"
  /\ requests' = [requests EXCEPT ![r].pc = "done"]
  /\ UNCHANGED <<pipelineVars, call, streams, todos, versions, events, issued,
                 reply, apiCalls, storeCalls, middleware>>

StoreNext ==
  \/ \E f \in Factories, u \in BOOLEAN : BuildMiddleware(f, u)
  \/ \E r \in RequestIds : Arrive(r)
  \/ \E r \in RequestIds : SetEventStore(r)
  \/ \E r \in RequestIds : NextHandler(r)
  \/ \E r \in RequestIds : Leave(r)

StoreSpec == HelperInit /\ [][StoreNext]_vars

(***************************************************************************)
(* Properties of the error handling                                        *)
(***************************************************************************)
\* the error hook has run for the request in flight
HookRan == pc = "done" /\ answeredBy = "onError"

\* the outcome is a response whose body is a JSON document with the
\* members status, title and detail
IsProblemResponse(o) ==
  /\ o.tag = "response"
  /\ o.res.body.kind = "json"
  /\ {"status", "title", "detail"} \subseteq DOMAIN o.res.body.value

HasProblemContentType(o) ==
  /\ o.tag = "response"
  /\ "Content-Type" \in DOMAIN o.res.headers
  /\ o.res.headers["Content-Type"] = "application/problem+json"

\* C1: whatever the route handler threw and whatever mapError does (return
\* a document, return undefined, raise), the error hook returns a response
\* whose body is a Problem Document with status, title and detail, and the
\* hook does not throw.
C1_HookAlwaysAnswers == HookRan => IsProblemResponse(outcome)

\* what the caller's mapError gives for the thrown value
MapErrorGives == CallMapError(opts.mapError, thrown)

\* the error hook has run with a caller-supplied mapError
CustomHookRan == HookRan /\ opts.mapError # "none"

\* mapError returned a document: it alone determines the response
C2_DocumentDetermines ==
  (CustomHookRan /\ MapErrorGives.tag = "doc") =>
     /\ outcome.tag = "response"
     /\ outcome.res.body = JsonBody(MapErrorGives.doc)
     /\ outcome.res.status = (IF MapErrorGives.doc.status # 0
                                THEN MapErrorGives.doc.status ELSE 500)
     /\ HasProblemContentType(outcome)

\* the default mapping is used exactly when mapError returned undefined
C2_DefaultExactlyOnUndefined ==
  CustomHookRan => (defaultMapperCalls = 1 <=> MapErrorGives.tag = "undefined")

\* an unmapped error becomes 500 / Internal Server Error
C2_UnmappedIs500 ==
  (CustomHookRan /\ MapErrorGives.tag = "undefined") =>
     /\ IsProblemResponse(outcome)
     /\ outcome.res.status = 500
     /\ outcome.res.body.value.status = 500
     /\ outcome.res.body.value.title = "Internal Server Error"

\* C2 as stated: mapError is consulted first; its document alone determines
\* the response; the default mapping is used exactly when it returns
\* undefined, and then an unmapped error becomes 500, Internal Server Error,
\* with detail equal to the error's message.
C2_Original ==
  /\ C2_DocumentDetermines
  /\ C2_DefaultExactlyOnUndefined
  /\ C2_UnmappedIs500
  /\ (CustomHookRan /\ MapErrorGives.tag = "undefined" /\ InstanceOfError(thrown))
       => (outcome.tag = "response"
           /\ outcome.res.body.value.detail = thrown.message)

\* C2 (amended): as C2, with the detail equal to the error's message when
\* that message is not empty, and to the text Internal Server Error when it
\* is empty.
C2_MapErrorFirst ==
  /\ C2_DocumentDetermines
  /\ C2_DefaultExactlyOnUndefined
  /\ C2_UnmappedIs500
  /\ (CustomHookRan /\ MapErrorGives.tag = "undefined" /\ InstanceOfError(thrown))
       => (outcome.tag = "response"
           /\ outcome.res.body.value.detail =
                (IF thrown.message # "" THEN thrown.message
                 ELSE "Internal Server Error"))

\* both halves of C2 have happened: a custom error mapped to 418 by
\* mapError, or an error with a message left unmapped and answered by the
\* default mapping
C2_Witness ==
  /\ CustomHookRan
  /\ opts.mapError = "custom"
  /\ thrown.class = "Error"
  /\ thrown.message = "boom"
  /\ defaultMapperCalls = 1
  /\ outcome.tag = "response"
  /\ outcome.res.status = 500

\* the error hook has run with the default mapping only (no mapError given)
DefaultHookRan == HookRan /\ opts.mapError = "none"

\* C3: with Problem Details enabled and no custom mapError, a thrown
\* ConcurrencyError yields status 412 with Content-Type
\* application/problem+json.
C3_ConcurrencyIs412 ==
  (DefaultHookRan /\ thrown.class = "ConcurrencyError") =>
     /\ outcome.tag = "response"
     /\ outcome.res.status = 412
     /\ HasProblemContentType(outcome)

\* the response the default mapping is said to give to an error of class cls
DefaultMapsTo(cls, status, title) ==
  (DefaultHookRan /\ thrown.class = cls) =>
     /\ IsProblemResponse(outcome)
     /\ outcome.res.status = status
     /\ outcome.res.body.value.status = status
     /\ outcome.res.body.value.title = title
     /\ outcome.res.body.value.detail = thrown.message

\* C4: with the default mapping a ValidationError yields 400 Bad Request,
\* an IllegalStateError 403 Forbidden and a NotFoundError 404 Not Found,
\* the body's detail being the error's message and the body's status the
\* HTTP status.
C4_EmmettErrorsMapped ==
  /\ DefaultMapsTo("ValidationError", 400, "Bad Request")
  /\ DefaultMapsTo("IllegalStateError", 403, "Forbidden")
  /\ DefaultMapsTo("NotFoundError", 404, "Not Found")

\* C5: with the default mapping an HTTPException thrown with status s
\* yields a Problem Details response whose HTTP status and body status are
\* both s.
C5_HttpExceptionKeepsStatus ==
  (DefaultHookRan /\ thrown.class = "HTTPException") =>
     /\ IsProblemResponse(outcome)
     /\ HasProblemContentType(outcome)
     /\ outcome.res.status = thrown.status
     /\ outcome.res.body.value.status = thrown.status

UnroutedDone == pc = "done" /\ MatchRoute(opts.apis, req) = "none"

Is404Problem(o) ==
  /\ o.tag = "response"
  /\ o.res.status = 404
  /\ HasProblemContentType(o)

IsPreflight == opts.enableCors /\ req.method = "OPTIONS"

SendProblemCalled == call.fn = "sendProblem"

\* the title table of the Problem Document, as the specification gives it
TableTitle(status) ==
  CASE status = 400 -> "Bad Request"
    [] status = 403 -> "Forbidden"
    [] status = 404 -> "Not Found"
    [] status = 409 -> "Conflict"
    [] status = 412 -> "Precondition Failed"
    [] status = 500 -> "Internal Server Error"
    [] OTHER -> "Error"

\* the document sendProblem is to put in the body
ExpectedProblem(status, options) ==
  IF "problem" \in DOMAIN options THEN options["problem"]
  ELSE [type |-> "about:blank", status |-> status,
        detail |-> IF "problemDetails" \in DOMAIN options
                     THEN options["problemDetails"] ELSE "",
        title |-> TableTitle(status)]

\* C8: sendProblem(c, status, options) returns a response with the given
\* status, Content-Type application/problem+json and the Problem Document
\* as body: options.problem when given, otherwise a new document with type
\* about:blank, the given status, detail options.problemDetails (or the
\* empty string) and the default title of the status.
C8_SendProblemContract ==
  SendProblemCalled =>
     /\ call.result.tag = "response"
     /\ call.result.res.status = call.status
     /\ HasProblemContentType(call.result)
     /\ call.result.res.body = JsonBody(ExpectedProblem(call.status, call.options))

TableStatuses == {400, 403, 404, 409, 412, 500}

\* C9: for every status in {400, 403, 404, 409, 412, 500}, sendProblem
\* called without a document of its own puts the fixed table's title in the
\* body.
C9_DefaultTitles ==
  (SendProblemCalled /\ call.status \in TableStatuses
     /\ "problem" \notin DOMAIN call.options) =>
     /\ call.result.tag = "response"
     /\ call.result.res.body.kind = "json"
     /\ call.result.res.body.value.title = TableTitle(call.status)

\* sendProblem was called for 409 with a detail only and answered Conflict
C9_Witness ==
  /\ SendProblemCalled
  /\ call.status = 409
  /\ DOMAIN call.options = {"problemDetails"}
  /\ call.result.tag = "response"
  /\ call.result.res.body.value.title = "Conflict"

SendCreatedCalled == call.fn = "sendCreated"

\* the Location header of the response is exactly v
LocationIs(result, v) ==
  /\ result.tag = "response"
  /\ "Location" \in DOMAIN result.res.headers
  /\ result.res.headers["Location"] = v

\* <request-url>/<createdId>, with no second "/" after a trailing one
DerivedLocation(url, id) ==
  IF url[Len(url)] = "/" THEN url \o id ELSE url \o <<"/">> \o id

\* a non-empty url given: Location is exactly that url
C10_UrlWins ==
  (SendCreatedCalled /\ "url" \in DOMAIN call.options
     /\ call.options["url"] # <<>>) =>
     LocationIs(call.result, call.options["url"])

\* C10 as stated: sendCreated with a createdId and no explicit url sets
\* Location to <request-url>/<createdId> (no second "/" after a trailing
\* one); with a non-empty url, Location is exactly that url.
C10_Original ==
  /\ (SendCreatedCalled /\ "createdId" \in DOMAIN call.options
        /\ "url" \notin DOMAIN call.options) =>
        LocationIs(call.result,
                   DerivedLocation(call.url, call.options["createdId"]))
  /\ C10_UrlWins

\* C10 (amended): sendCreated with a non-empty createdId and no explicit
\* url sets Location to <request-url>/<createdId> (no second "/" after a
\* trailing one); with a non-empty url, Location is exactly that url; with
\* an empty createdId and no url it sets no Location header.
C10_LocationDerived ==
  /\ (SendCreatedCalled /\ "createdId" \in DOMAIN call.options
        /\ call.options["createdId"] # <<>>
        /\ "url" \notin DOMAIN call.options) =>
        LocationIs(call.result,
                   DerivedLocation(call.url, call.options["createdId"]))
  /\ (SendCreatedCalled /\ "createdId" \in DOMAIN call.options
        /\ call.options["createdId"] = <<>>
        /\ "url" \notin DOMAIN call.options) =>
        (call.result.tag = "response"
         /\ "Location" \notin DOMAIN call.result.res.headers)
  /\ C10_UrlWins

\* sendCreated was called with an id, no url, on a request URL that ends
\* with "/", and the Location has a single "/" before the id
C10_Witness ==
  /\ SendCreatedCalled
  /\ call.url = <<"h", "/">>
  /\ DOMAIN call.options = {"createdId"}
  /\ call.options["createdId"] = <<"a", "b">>
  /\ LocationIs(call.result, <<"h", "/", "a", "b">>)

\* the ETag header of the response is exactly v
ETagIs(result, v) ==
  /\ result.tag = "response"
  /\ "ETag" \in DOMAIN result.res.headers
  /\ result.res.headers["ETag"] = v

NoETag(result) ==
  /\ result.tag = "response"
  /\ "ETag" \notin DOMAIN result.res.headers

\* sendCreated answers 201; the body is {id: createdId} exactly when the
\* options carry a createdId and is empty otherwise
C11_StatusAndBody ==
  SendCreatedCalled =>
     /\ call.result.tag = "response"
     /\ call.result.res.status = 201
     /\ call.result.res.body =
          (IF "createdId" \in DOMAIN call.options
             THEN JsonBody([id |-> call.options["createdId"]])
             ELSE NullBody)

\* C11 as stated: sendCreated always returns status 201; the body is the
\* JSON object {id: createdId} exactly when options carries a createdId and
\* is empty otherwise; the ETag header is set to options.eTag exactly when
\* eTag is given.
C11_Original ==
  /\ C11_StatusAndBody
  /\ SendCreatedCalled =>
       IF "eTag" \in DOMAIN call.options
         THEN ETagIs(call.result, call.options["eTag"])
         ELSE NoETag(call.result)

\* C11 (amended): sendCreated always returns status 201; the body is the
\* JSON object {id: createdId} exactly when options carries a createdId and
\* is empty otherwise; the ETag header is set to options.eTag exactly when a
\* non-empty eTag is given, and no ETag header is set when eTag is omitted
\* or is the empty string.
C11_CreatedContract ==
  /\ C11_StatusAndBody
  /\ SendCreatedCalled =>
       IF "eTag" \in DOMAIN call.options /\ call.options["eTag"] # <<>>
         THEN ETagIs(call.result, call.options["eTag"])
         ELSE NoETag(call.result)

\* sendCreated was called with a url only and an eTag: 201, no body, the
\* ETag header set
C11_Witness ==
  /\ SendCreatedCalled
  /\ DOMAIN call.options = {"url", "eTag"}
  /\ call.options["eTag"] = SampleETag
  /\ call.result.tag = "response"
  /\ call.result.res.status = 201
  /\ call.result.res.body = NullBody
  /\ ETagIs(call.result, SampleETag)

(***************************************************************************)
(* Properties of the ETag middlewares                                      *)
(***************************************************************************)
\* the request in flight was a GET answered by its route handler, which
\* returns status 200 with a non-empty body, in an application with the
\* ETag middleware enabled
TaggedGetDone ==
  /\ pc = "done"
  /\ opts.enableETag
  /\ req.method = "GET"
  /\ answeredBy = "route"

WeakPrefix == <<"W", "/", Quote>>

StrongPrefix == <<Quote>>

\* C12: with the ETag middleware enabled, every GET whose route returns
\* status 200 with a non-empty body gets a response carrying an ETag
\* header; the header starts with W/" unless etagOptions.weak is false, in
\* which case it starts with "; weak is the default, so this holds also
\* when etagOptions is omitted.
C12_WeakUnlessDisabled ==
  TaggedGetDone =>
     /\ outcome.tag = "response"
     /\ "ETag" \in DOMAIN outcome.res.headers
     /\ IF "weak" \in DOMAIN opts.etagOptions /\ ~opts.etagOptions["weak"]
          THEN StartsWith(outcome.res.headers["ETag"], StrongPrefix)
          ELSE StartsWith(outcome.res.headers["ETag"], WeakPrefix)

ApplyETagCalled == call.fn = "applyETag"

\* the middleware put an ETag on a response that had none
ETagAdded ==
  /\ ApplyETagCalled
  /\ "ETag" \notin DOMAIN call.res.headers
  /\ "ETag" \in DOMAIN call.result.headers

\* C13: the ETag middleware adds an ETag header only to responses of GET or
\* HEAD requests with a 2xx status other than 204; a 204 response, a 304
\* response, a non-2xx response and a response to any other method never
\* receive a middleware-generated ETag.
C13_OnlyEligibleTagged ==
  ETagAdded =>
     /\ call.method \in {"GET", "HEAD"}
     /\ call.res.status \in 200..299
     /\ call.res.status # 204

\* the middleware tagged the 201 response of a HEAD request
C13_Witness ==
  /\ ETagAdded
  /\ call.method = "HEAD"
  /\ call.res.status = 201
  /\ call.res.body = TextBody("pong")

\* C14: a response on which the route handler already set an ETag header
\* leaves the middleware with exactly that ETag value: a pre-existing ETag
\* is never replaced or recomputed.
C14_ExistingETagKept ==
  (ApplyETagCalled /\ "ETag" \in DOMAIN call.res.headers) =>
     /\ "ETag" \in DOMAIN call.result.headers
     /\ call.result.headers["ETag"] = call.res.headers["ETag"]

\* a GET answered 200 with a body and the route's own ETag passed a
\* middleware configured for strong ETags
C14_Witness ==
  /\ ApplyETagCalled
  /\ call.method = "GET"
  /\ call.options = [weak |-> FALSE]
  /\ call.res.status = 200
  /\ call.res.body = TextBody("pong")
  /\ "ETag" \in DOMAIN call.res.headers
  /\ call.result.headers["ETag"] = ManualETag

\* the ETag middleware generates strong values
StrongMode ==
  opts.enableETag
    /\ ("weak" \in DOMAIN opts.etagOptions => ~opts.etagOptions["weak"])

\* the GET in flight repeats a GET of the same route, whose response
\* carried an ETag, and names that ETag in If-None-Match
ConditionalGetDone ==
  /\ TaggedGetDone
  /\ prev.etag # <<>>
  /\ prev.path = req.path
  /\ req.ifNoneMatch = prev.etag

Ran(s) == \E i \in 1..Len(trace) : trace[i] = s

\* stage a ran, and ran before stage b
RanBefore(a, b) ==
  \E i, j \in 1..Len(trace) : i < j /\ trace[i] = a /\ trace[j] = b

\* the innermost stage: a route handler or the notFound handler
HandlerRan == Ran("route") \/ Ran("notFound")

HandlerRanBefore(s) == RanBefore("route", s) \/ RanBefore("notFound", s)

AllMiddlewaresOn == opts.enableLogger /\ opts.enableCors /\ opts.enableETag

\* C19: for every request to an application built with logger, CORS and
\* ETag all enabled, the stages run strictly in the order logger, CORS,
\* ETag, route handler, each stage resuming its post-processing only after
\* the next stage has completed; the error handler runs only after a route
\* handler has thrown.
C19_StagesInOrder ==
  AllMiddlewaresOn =>
     /\ Ran("cors") => RanBefore("logger", "cors")
     /\ Ran("etag") => RanBefore("cors", "etag")
     /\ Ran("route") => RanBefore("etag", "route")
     /\ Ran("notFound") => RanBefore("etag", "notFound")
     /\ Ran("etagPost") =>
          /\ HandlerRanBefore("etagPost")
          /\ Ran("onError") => RanBefore("onError", "etagPost")
     /\ Ran("loggerPost") =>
          /\ RanBefore("cors", "loggerPost")
          /\ Ran("etag") => RanBefore("etagPost", "loggerPost")
     /\ Ran("onError") =>
          /\ thrown # NoThrown
          /\ RanBefore("route", "onError")
     /\ pc = "done" => (Ran("logger") /\ Ran("cors"))
     /\ (pc = "done" /\ outcome.tag = "response") => Ran("loggerPost")

\* a request whose route handler threw went through every stage and back
C19_Witness ==
  /\ AllMiddlewaresOn
  /\ pc = "done"
  /\ trace = <<"logger", "cors", "etag", "route", "onError", "etagPost",
               "loggerPost">>

HasHeader(o, n) == o.tag = "response" /\ n \in DOMAIN o.res.headers

\* C20: a middleware whose enable flag is false or omitted is not
\* installed: for every request, the response has no
\* Access-Control-Allow-Origin header when enableCors is off, no
\* middleware-generated ETag header when enableETag is off, and the logger
\* is never called when enableLogger is off.
C20_DisabledNotInstalled ==
  /\ ~opts.enableCors =>
       (~Ran("cors") /\ ~HasHeader(outcome, "Access-Control-Allow-Origin"))
  /\ ~opts.enableETag =>
       (~Ran("etag") /\ ~Ran("etagPost") /\ ~HasHeader(outcome, "ETag"))
  /\ ~opts.enableLogger =>
       (~Ran("logger") /\ ~Ran("loggerPost") /\ logs = <<>>)

\* GET /ping was answered 200 by an application with every flag off,
\* although etagOptions were given
C20_Witness ==
  /\ pc = "done"
  /\ ~opts.enableCors /\ ~opts.enableETag /\ ~opts.enableLogger
  /\ opts.etagOptions = [weak |-> TRUE]
  /\ answeredBy = "route"
  /\ outcome.res.status = 200
  /\ trace = <<"route">>

(***************************************************************************)
(* Properties of the shopping-cart API                                     *)
(***************************************************************************)
\* the last request was a command sent with an If-Match
CommandAnswered == reply.op \in {"add", "confirm", "cancel"}

\* the If-Match of the last request names another version than the cart's
\* stream had
StaleIfMatch ==
  /\ CommandAnswered
  /\ reply.ifMatch # <<>>
  /\ ExpectedFromIfMatch(reply.ifMatch) # reply.before

\* C16: in the shopping-cart API, a command sent with an If-Match that
\* names a version other than the cart stream's current version is
\* answered 412 and appends no event; in particular, of two add-item
\* requests carrying the same If-Match, the first succeeds with 204 and a
\* new ETag and the second is rejected with 412, and only a request
\* carrying the newest ETag can succeed next.
C16_StaleIfMatchIs412 ==
  /\ StaleIfMatch =>
       /\ reply.result.tag = "response"
       /\ reply.result.res.status = 412
       /\ reply.after = reply.before
  /\ (reply.op = "add" /\ ~StaleIfMatch /\ reply.before > 0
        /\ reply.result.tag = "response"
        /\ reply.result.res.status # 500) =>
       /\ reply.result.res.status = 204
       /\ reply.after = reply.before + 1
       /\ ETagIs(reply.result, toWeakETag(reply.after))
  /\ (CommandAnswered /\ reply.result.tag = "response"
        /\ reply.result.res.status = 204) => ~StaleIfMatch

\* a command reached the cart API without an If-Match header
IfMatchMissing == CommandAnswered /\ reply.ifMatch = <<>>

\* C26: a request that omits the If-Match header on an endpoint that needs
\* an expected version is answered with 428 Precondition Required, not
\* with 412 or 500.
C26_MissingIfMatchIs428 ==
  IfMatchMissing =>
    /\ reply.result.tag = "response"
    /\ reply.result.res.status = 428

(***************************************************************************)
(* Properties of the todo APIs                                             *)
(***************************************************************************)
\* the last request to the todo API was answered with a Problem Details
\* error of status 404, 409 or 412
TodoErrorAnswered ==
  /\ reply.op \in {"create", "update", "complete", "unrouted"}
  /\ HasProblemContentType(reply.result)
  /\ reply.result.res.status \in {404, 409, 412}

\* C18: in the todo API of the business-logic tests, every request answered
\* with a Problem Details error (412 on an If-Match that differs from the
\* stored ETag, 409 on completing an already completed todo, 404 on an
\* unknown id) leaves the event log, the todos and their versions
\* unchanged, after any sequence of earlier requests.
C18_ErrorsChangeNothing ==
  /\ TodoErrorAnswered => TodoStores = reply.before
  /\ (reply.op = "update" /\ reply.id \notin DOMAIN todos) =>
       (TodoErrorAnswered /\ reply.result.res.status = 404)
  /\ (reply.op = "complete" /\ reply.id \in DOMAIN reply.before.todos
        /\ reply.before.todos[reply.id].done) =>
       (TodoErrorAnswered /\ reply.result.res.status = 409)
  /\ (reply.op = "update" /\ reply.id \in DOMAIN reply.before.todos
        /\ reply.ifMatch # <<>>
        /\ reply.ifMatch # <<Quote>> \o Decimal(reply.before.versions[reply.id])
                              \o <<Quote>>) =>
       (TodoErrorAnswered /\ reply.result.res.status = 412)

\* a second completion of a todo was answered 409 after the todo had been
\* created and completed
C18_Witness ==
  /\ reply.op = "complete"
  /\ TodoErrorAnswered
  /\ reply.result.res.status = 409
  /\ Len(events) = 2
  /\ apiCalls = 3

\* an update with a stale If-Match was answered 412 after an update had
\* changed the title
C18_WitnessStale ==
  /\ reply.op = "update"
  /\ TodoErrorAnswered
  /\ reply.result.res.status = 412
  /\ Len(events) = 2

\* the last request was a GET /todos/:id for a todo the client created,
\* sent with the ETag the creation was answered with as If-None-Match
RevalidatingGet ==
  /\ reply.op = "get"
  /\ reply.id \in DOMAIN issued
  /\ reply.ifNoneMatch = issued[reply.id]

\* C17: in the conditional-GET todo API, POST /todos answers 201 with a
\* Location header, the body {id} and an ETag, and as long as the todo is
\* as it was created, GET /todos/{id} with that ETag as If-None-Match
\* answers 304 without a body.
C17_RevalidationIs304 ==
  /\ reply.op = "post" =>
       /\ reply.result.tag = "response"
       /\ reply.result.res.status = 201
       /\ "Location" \in DOMAIN reply.result.res.headers
       /\ reply.result.res.body = JsonBody([id |-> reply.id])
       /\ "ETag" \in DOMAIN reply.result.res.headers
       /\ issued[reply.id] = reply.result.res.headers["ETag"]
  /\ RevalidatingGet =>
       /\ reply.result.tag = "response"
       /\ reply.result.res.status = 304
       /\ reply.result.res.body = NullBody

\* a todo was revalidated with its creation ETag after another todo had
\* been created in between
C17_Witness ==
  /\ RevalidatingGet
  /\ reply.result.res.status = 304
  /\ Cardinality(DOMAIN todos) = 2

(***************************************************************************)
(* Properties of the Legacy shim                                           *)
(***************************************************************************)
LegacyCalled == call.fn = "Legacy"

\* the options the modern helper is handed for a Legacy argument: the
\* object itself, nothing for undefined, {problemDetails: s} for a string s
ModernOptions(v) ==
  CASE v.kind = "object" -> v.value
    [] v.kind = "undefined" -> NoOptions
    [] v.kind = "string" -> [problemDetails |-> v.value]

\* the modern counterpart of a Legacy helper, called directly
Modern(helper, statusCode, options, c) ==
  CASE helper = "OK" -> sendOK(c, options)
    [] helper = "Created" -> sendCreated(c, options)
    [] helper = "Accepted" -> sendAccepted(c, options)
    [] helper = "NoContent" -> sendNoContent(c, options)
    [] helper = "BadRequest" -> sendProblem(c, 400, options)
    [] helper = "Forbidden" -> sendProblem(c, 403, options)
    [] helper = "NotFound" -> sendProblem(c, 404, options)
    [] helper = "Conflict" -> sendProblem(c, 409, options)
    [] helper = "PreconditionFailed" -> sendProblem(c, 412, options)
    [] helper = "HttpProblem" -> sendProblem(c, statusCode, options)

\* C21: for every Legacy helper, every options value and every context,
\* Legacy.Helper(options)(c) has the outcome of the modern send* helper
\* called with c and the same options (same status, headers and body); a
\* plain string handed to a Legacy problem helper is treated as
\* {problemDetails: thatString}.
C21_LegacyEqualsModern ==
  LegacyCalled =>
    call.result = Modern(call.helper, call.status, ModernOptions(call.options),
                         [url |-> call.url])

\* a Legacy problem helper was called with a non-empty plain string and
\* answered with that string as the detail
C21_Witness ==
  /\ LegacyCalled
  /\ call.helper = "NotFound"
  /\ call.options = [kind |-> "string", value |-> "not found"]
  /\ call.result.tag = "response"
  /\ call.result.res.status = 404
  /\ call.result.res.body.value.detail = "not found"

(***************************************************************************)
(* Properties of the weak ETag helpers                                     *)
(***************************************************************************)
\* C22: for every v that is a number, a bigint or a string,
\* getWeakETagValue(toWeakETag(v)) returns v converted to a string.
C22_RoundTrip ==
  call.fn = "roundTrip" =>
    call.result = [tag |-> "value",
                   value |-> IF call.value.kind = "string" THEN call.value.value
                             ELSE Decimal(call.value.value)]

\* s has the form W/"...": it starts with W/" and ends with a further "
HasWeakForm(s) ==
  /\ Len(s) >= 4
  /\ SubSeq(s, 1, 3) = <<"W", "/", Quote>>
  /\ s[Len(s)] = Quote

\* C23: isWeakETag(s) is true exactly when s is a string of the form
\* W/"...": true for W/"42"-like values, false for a strong ETag, for text
\* that is no ETag and for undefined.
C23_WeakExactlyOnWeakForm ==
  call.fn = "isWeakETag" =>
    (call.result <=> (call.etag.kind = "string" /\ HasWeakForm(call.etag.value)))

\* C24: getWeakETagValue raises an error with the message
\* WRONG_WEAK_ETAG_FORMAT whenever its argument is not in the weak format
\* W/"..." (a strong ETag for one), and returns without raising for every
\* argument for which isWeakETag is true.
C24_RaisesOnWrongFormat ==
  call.fn = "getWeakETagValue" =>
    /\ (call.etag.kind # "string" \/ ~HasWeakForm(call.etag.value)) =>
         /\ call.result.tag = "throw"
         /\ call.result.error.message = "WRONG_WEAK_ETAG_FORMAT"
    /\ isWeakETag(call.etag) => call.result.tag = "value"

\* getWeakETagValue was handed the strong ETag "4" and raised
C24_Witness ==
  /\ call.fn = "getWeakETagValue"
  /\ call.etag = [kind |-> "string", value |-> <<Quote, "4", Quote>>]
  /\ call.result.tag = "throw"

\* getWeakETagValue was handed W/"4" and returned 4
C24_WitnessReturns ==
  /\ call.fn = "getWeakETagValue"
  /\ call.etag = [kind |-> "string", value |-> <<"W", "/", Quote, "4", Quote>>]
  /\ call.result = [tag |-> "value", value |-> <<"4">>]

(***************************************************************************)
(* Properties of the response helpers as a whole                           *)
(***************************************************************************)
\* a response helper was called, directly or through the Legacy shim
ResponseHelperCalled == call.fn \in {"sendProblem", "sendCreated", "Legacy"}

\* C25: no response helper (sendOK, sendCreated, sendAccepted,
\* sendNoContent, sendProblem and its wrappers) throws, for any status code
\* and any options value; sendProblem with status 204 or 304 returns a
\* response too.
C25_HelpersNeverThrow ==
  ResponseHelperCalled => call.result.tag = "response"

(***************************************************************************)
(* Properties of the logger middleware                                     *)
(***************************************************************************)
LoggerCalled == call.fn = "applyLogger"

\* the logger ran with logging switched on
LoggingOn ==
  /\ LoggerCalled
  /\ ("timing" \in DOMAIN call.options => call.options["timing"] # "none")

HandlerThrew == LoggerCalled /\ call.route.tag = "throw"

C27_WitnessRethrown ==
  /\ LoggingOn
  /\ HandlerThrew
  /\ call.result.outcome.tag = "throw"
  /\ call.result.logs[1].status = 500

(***************************************************************************)
(* Properties of the error handler's response                              *)
(***************************************************************************)
\* the global error handler has answered the request with a response
HookAnswered == HookRan /\ outcome.tag = "response"

\* C28: every response produced by the global error handler has an HTTP
\* status equal to the status member of the Problem Document in its body,
\* for every document a mapError may return, one with status 0 included.
C28_StatusMatchesDocument ==
  HookAnswered => outcome.res.status = outcome.res.body.value.status

(***************************************************************************)
(* Frame of the ETag middleware                                            *)
(***************************************************************************)
\* the headers of the response the middleware leaves, the ETag aside, are
\* those of the response the route handler produced
OtherHeadersKept ==
  /\ DOMAIN call.result.headers \ {"ETag"} = DOMAIN call.res.headers \ {"ETag"}
  /\ \A h \in DOMAIN call.res.headers \ {"ETag"} :
       call.result.headers[h] = call.res.headers[h]

PastMiddleware(r) == requests[r].pc \in {"handler", "after", "done"}

\* C30: eventStoreMiddleware calls its createStore factory exactly once,
\* when the middleware is built, and every request that passes through the
\* middleware, in any order and number, finds that same event store
\* instance under the eventStore context variable before the next handler
\* runs.
C30_OneStoreForAll ==
  /\ middleware.tag = "none" => storeCalls = 0
  /\ middleware.tag # "none" => storeCalls = 1
  /\ \A r \in DOMAIN requests :
       /\ middleware.tag = "built"
       /\ PastMiddleware(r) =>
            /\ "eventStore" \in DOMAIN requests[r].variables
            /\ requests[r].variables["eventStore"] = middleware.store
       /\ requests[r].pc \in {"after", "done"} =>
            requests[r].seen = middleware.store

\* three requests overlapped: one is done, one has run its handler and one
\* is about to, all with the store of the one factory call
C30_Witness ==
  /\ middleware.tag = "built"
  /\ storeCalls = 1
  /\ \E a, b, c \in DOMAIN requests :
       /\ requests[a].pc = "done"
       /\ requests[b].pc = "after"
       /\ requests[c].pc = "handler"
       /\ requests[a].seen = middleware.store

====
